---- MODULE Spec2Model ----
(***************************************************************************)
(* Slot acquisition state machine of the appointment bot:                  *)
(* AppointmentService.process_all_services / register_visit (incremental   *)
(* cycle), run_reset_cycle_for_all_services / register_visit_from_date     *)
(* (reset cycle), ConfigManager.update_service_last_date (watermark store) *)
(* and the date filters of utils.py.                                       *)
(*                                                                         *)
(* The remote booking API, the browser and the file system are the         *)
(* environment: every call to them is a nondeterministic choice among the  *)
(* outcomes the code distinguishes.                                        *)
(***************************************************************************)
EXTENDS Integers, Sequences, FiniteSets, TLC

(* ------------------------------ bounds --------------------------------- *)

\* Number of distinct dates the remote can offer.
MaxDate == 2

\* Largest number of time candidates the remote returns for one date.
MaxTimes == 2

\* The observer's call counters count up to this value and stay there.
ObsCap == 2

\* Largest max_retries, initial_delay and delay_multiplier given to retry_request.
MaxRetries == 5

\* max_retries is also given the values below zero down to minus this one.
MaxNegRetries == 1

MaxDelay == 2

MaxMultiplier == 2

\* Number of distinct dates, and largest max_future_days, given to the date
\* filters when they are called alone.
MaxFilterDate == 3

MaxWindow == 2

\* Iterations of the wait loop between two cycles (repeat_minutes * 60 in the
\* configuration), one second each.
WaitTicks == 2

\* Callback queries the polling task receives in all.
MaxCallbacks == 2

(* ------------------------- dates as strings ---------------------------- *)

\* None (and the empty string): both are falsy in the code's tests.
NoDate == <<>>

\* The day before the first offered date; datetime.now() of the reset cycle.
Today == 0

\* strftime('%Y-%m-%d') restricted to the varying part: a fixed-width,
\* zero-padded decimal string, kept as its sequence of digits.
DateStr(i) == <<i \div 10, i % 10>>

Dates == {DateStr(i) : i \in 1..MaxDate}

\* Python's str < str: lexicographic on the characters, a proper prefix first.
RECURSIVE StrLess(_, _)
StrLess(a, b) ==
    IF b = <<>> THEN FALSE
    ELSE IF a = <<>> THEN TRUE
    ELSE IF Head(a) < Head(b) THEN TRUE
    ELSE IF Head(a) > Head(b) THEN FALSE
    ELSE StrLess(Tail(a), Tail(b))

StrLeq(a, b) == a = b \/ StrLess(a, b)

\* Variant: a date equal to the watermark passes (>= for >).
DateAfter_OrEqual(d, last_date) == StrLeq(last_date, d)

\* d["date"] > last_date
DateAfter(d, last_date) == StrLess(last_date, d)

\* [d["date"] for d in dates if not last_date or d["date"] > last_date]
find_next_dates(dates, last_date) ==
    SelectSeq(dates, LAMBDA d : last_date = NoDate \/ DateAfter(d, last_date))

\* Variant: the lower bound is the current day, not the day after it.
MinDay_Today(start_day, now_day) == IF start_day > now_day THEN start_day ELSE now_day

\* min_date = max(start_dt, current_dt + timedelta(days=1)), as a day: start_dt
\* is a midnight, so the later of the two has the later (or the same) date.
MinDay(start_day, now_day) == IF start_day > now_day + 1 THEN start_day ELSE now_day + 1

\* [d["date"] for d in dates if min_date_str <= d["date"] <= max_date_str]
\* with min_date = max(start_dt, now + 1 day), max_date = start_dt + max_future_days.
find_dates_from_date(dates, start_day, now_day, max_future_days) ==
    LET min_day == MinDay(start_day, now_day)
        min_date_str == DateStr(min_day)
        max_date_str == DateStr(start_day + max_future_days)
    IN  SelectSeq(dates, LAMBDA d : StrLeq(min_date_str, d) /\ StrLeq(d, max_date_str))

(* ---------------------------- environment ------------------------------ *)

\* The lists of dates the "available dates" endpoint can answer with: any
\* selection of the offered dates, in any order, each date once.
RECURSIVE SeqsOver(_)
SeqsOver(S) ==
    IF S = {} THEN {<<>>}
    ELSE {<<>>} \cup UNION {{<<x>> \o s : s \in SeqsOver(S \ {x})} : x \in S}

RemoteDateLists == SeqsOver(Dates)

(* --------------------------- configuration ----------------------------- *)

ServiceData(id, service_id, visits_per_day, last_registered_date) ==
    [id |-> id, service_id |-> service_id, visits_per_day |-> visits_per_day,
     last_registered_date |-> last_registered_date]

\* channels.json / settings.json as loaded at start-up, the services of all
\* channels in configured order (channels in order, services within a channel).
Configs ==
    { \* one service, no watermark, quota 1
      [telegram_enabled |-> TRUE, reset_cycle_enabled |-> FALSE, max_future_days |-> 1,
       services |-> << ServiceData("c1", "s1", 1, NoDate) >>],
      \* the same service in two channels, quota 2 and 1
      [telegram_enabled |-> TRUE, reset_cycle_enabled |-> FALSE, max_future_days |-> 1,
       services |-> << ServiceData("c1", "s1", 2, DateStr(1)),
                       ServiceData("c2", "s1", 1, NoDate) >>],
      \* two entries of one channel sharing a service_id
      [telegram_enabled |-> FALSE, reset_cycle_enabled |-> TRUE, max_future_days |-> 1,
       services |-> << ServiceData("c1", "s1", 1, DateStr(MaxDate)),
                       ServiceData("c1", "s1", 1, NoDate) >>],
      \* one service, quota 2, reset cycle over a window of two days
      [telegram_enabled |-> TRUE, reset_cycle_enabled |-> TRUE, max_future_days |-> 2,
       services |-> << ServiceData("c1", "s2", 2, NoDate) >>],
      \* quota 0
      [telegram_enabled |-> FALSE, reset_cycle_enabled |-> FALSE, max_future_days |-> 1,
       services |-> << ServiceData("c1", "s2", 0, NoDate) >>] }

(* ------------------------------- state --------------------------------- *)

VARIABLES
    channels,   \* ConfigManager._channels: the service entries, in memory
    persisted,  \* channels.json on disk
    settings,   \* telegram_enabled, reset_cycle_enabled, reset_cycle_max_future_days
    mode,       \* "idle" | "incremental" | "reset": the cycle being run
    svc,        \* index of the service entry being processed
    pc,         \* position inside the service pass
    session,    \* AppointmentService._session: "none" | "open"
    loc,        \* locals of register_visit / register_visit_from_date
    obs,        \* what an observer of the current pass has seen so far
    cyc,        \* what an observer of the current cycle has seen so far
    util,       \* a call of one of the functions of utils.py, taken alone
    bot,        \* AppointmentBot (main.py): the running flag and its tasks
    tg          \* TelegramService: the callback queue and its workers

vars == <<channels, persisted, settings, mode, svc, pc, session, loc, obs,
          cyc, util, bot, tg>>

NoEntry == ServiceData("", "", 0, NoDate)

InitLoc ==
    [service_entry |-> NoEntry,
     available_dates |-> <<>>,
     di |-> 0,
     times |-> 0,
     times_copy |-> {},
     appointment_id |-> 0,   \* the candidate whose reserve call returned the id
                             \* the attempt holds; 0: none (kept only while the
                             \* attempt uses it)
     successful_registrations |-> 0,
     total_successes |-> 0,
     last_processed_date |-> NoDate]

\* Observations of one service pass; reset when the pass starts.
InitObs(chs, per) ==
    [channels_before |-> chs,          \* in-memory entries when the pass started
     persisted_before |-> per,         \* the document when the pass started
     empty_dates |-> {},               \* dates whose times query returned no times
     times_queried |-> <<>>,           \* the dates of the times queries, in order
     slot_attempts |-> [t \in 1..MaxTimes |-> 0],  \* reserve attempts per candidate
                                       \* of the date the pass is at
     confirmed |-> [d \in Dates |-> 0],   \* confirmed reservations per date
     reserve_calls |-> 0,
     reserve_ids |-> 0,                \* reserve calls that returned an id
     match_calls |-> 0,
     confirm_calls |-> 0,
     visit_events |-> 0,               \* VisitRegistered events emitted
     error_events |-> 0,               \* ErrorOccurred events emitted
     update_calls |-> 0,               \* update_service_last_date calls
     committed |-> NoDate,             \* the date the last of them was given
     last_call |-> [kind |-> "none", date |-> NoDate, ok |-> TRUE],
                                       \* the last call to the remote system and
                                       \* whether it gave what was asked for
     confirm_answer |-> "none",        \* what the confirm call just made met
     notify_answer |-> "none",         \* how the notification just sent ended
     paused |-> FALSE,                 \* the pause was taken since the last attempt
     all_ok |-> TRUE,                  \* no remote call of the pass has failed
     result |-> "running"]             \* "true" | "false" | "raised" once ended

\* Observations of one cycle; reset when the cycle starts and when it ends.
InitCyc ==
    [started |-> <<>>,        \* indices of the services whose pass was started
     sessions |-> 0,          \* sessions _create_session has returned
     auth_failed |-> 0,       \* the first service whose _create_session raised
     owner |-> 0,             \* the service whose pass made self._session
     unclosed |-> {}]         \* services whose session was made and not closed

\* No call of a utils.py function is under way.
NoCall == [fn |-> "none"]

\* def start_workers(self, num_workers: int = 3)
NumWorkers == 3

\* AppointmentBot.__init__; the two tasks of run() do not exist yet.
InitBot ==
    [main |-> "start",          \* where main() / run() / shutdown() stands
     running |-> FALSE,         \* self.running
     has_services |-> FALSE,    \* telegram_service and appointment_service are set
     channel_keys |-> TRUE,     \* the first channel has 'id', 'name' and 'chat_id'
     worker |-> "none",         \* the task of start_appointment_worker
     ticks |-> 0,               \* iterations left of "for _ in range(repeat_minutes * 60)"
     polling |-> "none",        \* the task of start_telegram_polling
     cancel |-> {},             \* tasks whose cancel() was called and not yet delivered
     committed |-> {}]          \* <<entry, date>>: an incremental pass of the entry has
                                \* confirmed on the date and its commit has returned
                                \* (kept by the observer of a sequence of cycles)

\* TelegramService before __init__ / start_workers: no queue item, no worker.
InitTg ==
    [queue |-> <<>>,                          \* task_queue: the items not yet taken
     unfinished |-> 0,                        \* the queue's count of unfinished tasks
     enqueued |-> 0,                          \* items put so far (numbered 1, 2, ...)
     handled |-> {},                          \* items _handle_callback_task has finished
     edit_failed |-> {},                      \* those of them whose editMessageText failed
     workers |-> {},                          \* self._workers
     at |-> [w \in 1..NumWorkers |-> "none"], \* where each _callback_worker stands
     item |-> [w \in 1..NumWorkers |-> 0],    \* the item it holds (0: none)
     gets |-> [w \in 1..NumWorkers |-> 0],    \* items it has taken from the queue
     dones |-> [w \in 1..NumWorkers |-> 0],   \* its calls of task_done
     cancel |-> {}]                           \* workers whose cancel() is not yet delivered

Init ==
    /\ \E c \in Configs :
          /\ channels = c.services
          /\ persisted = c.services
          /\ settings = [telegram_enabled |-> c.telegram_enabled,
                         reset_cycle_enabled |-> c.reset_cycle_enabled,
                         max_future_days |-> c.max_future_days]
          /\ obs = InitObs(c.services, c.services)
    /\ mode = "idle"
    /\ svc = 0
    /\ pc = "idle"
    /\ session = "none"
    /\ loc = InitLoc
    /\ cyc = InitCyc
    /\ util = NoCall
    /\ bot = InitBot
    /\ tg = InitTg

(* ------------------------------ helpers -------------------------------- *)

\* The date the for loop over available_dates is at.
CurDate == loc.available_dates[loc.di]

Called(o, kind, date) ==
    [o EXCEPT !.last_call = [kind |-> kind, date |-> date, ok |-> TRUE]]

\* The call just made has failed (an exception, no id, a status other than 200).
Failed(o) == [o EXCEPT !.all_ok = FALSE, !.last_call.ok = FALSE]

\* A call counter of the observer, one more (up to ObsCap).
Inc(n) == IF n < ObsCap THEN n + 1 ELSE n

\* Variant: the pass does not look at the session it holds and makes a new one.
HasSession_Never(held) == FALSE

\* if not self._session: ...   (a Session object is truthy, closed or not)
HasSession(held) == held # "none"

\* self._session = self._create_session() has returned in the pass of service i.
SessionMade(c, i) ==
    [c EXCEPT !.sessions = Inc(@), !.owner = i, !.unclosed = @ \cup {i}]

\* if self._session: self._session.close()
SessionClosed(c, held) ==
    IF held = "none" THEN c ELSE [c EXCEPT !.unclosed = @ \ {c.owner}]

\* "for date in available_dates": the next iteration, or the code after the loop.
NextDatePc(l) == IF l.di < Len(l.available_dates) THEN "times" ELSE "after_for"

NextDate(l) == IF l.di < Len(l.available_dates) THEN [l EXCEPT !.di = @ + 1] ELSE l

\* Variant: the quota test lets one attempt too many through (<= for <).
QuotaOpen_Leq(l) ==
    /\ l.successful_registrations <= l.service_entry.visits_per_day
    /\ l.times_copy # {}

\* while successful_registrations < service_entry.visits_per_day and times_copy
QuotaOpen(l) ==
    /\ l.successful_registrations < l.service_entry.visits_per_day
    /\ l.times_copy # {}

\* Variant: the chosen candidate stays in the list.
RemoveCandidate_Keep(times_copy, t) == times_copy

\* times_copy.remove(time_data)
RemoveCandidate(times_copy, t) == times_copy \ {t}

\* Variant: the "continue" after a reserve without id is missing.
AfterReservePc_NoContinue(has_id) == "customer"

\* if not appointment_id: continue
AfterReservePc(has_id) == IF has_id THEN "customer" ELSE "while"

\* Variant: the "continue" after an exception of _create_customer is missing.
AfterCustomerPc_NoContinue(ok) == "confirm"

\* try: self._create_customer(...)  except Exception: ...; continue
AfterCustomerPc(ok) == IF ok THEN "confirm" ELSE "while"

\* Variant: a confirm call that fails ends the loop over the dates.
AfterFailedConfirmPc_Break == "after_for"

\* else: logging.warning(...), then the pause at the end of the loop body.
AfterFailedConfirmPc == "sleep"

\* Variant: the loop over dates goes on after a date with registrations.
BreakOnSuccess_Never(l) == FALSE

\* if successful_registrations > 0: break   (out of the loop over dates)
BreakOnSuccess(l) == l.successful_registrations > 0

\* Variant: every slot success writes the configuration at once.
CommitOnSuccess_Always == TRUE

\* The slot success path only remembers the date (last_processed_date = date);
\* the configuration is not written there.
CommitOnSuccess == FALSE

\* Variant: the commit does not ask whether anything was registered.
CommitDate_IgnoreSuccesses(l) == l.last_processed_date

\* Variant: the commit asks for more than one registration (> 1 for > 0).
CommitDate_OffByOne(l) ==
    IF l.total_successes > 1 /\ l.last_processed_date # NoDate
    THEN l.last_processed_date
    ELSE NoDate

\* if total_successes > 0 and last_processed_date: the date to commit, else none.
CommitDate(l) ==
    IF l.total_successes > 0 /\ l.last_processed_date # NoDate
    THEN l.last_processed_date
    ELSE NoDate

\* ConfigManager.update_service_last_date: the first entry of the channel with
\* that service_id (0: not found).
FindService(chs, channel_id, service_id) ==
    LET hits == {i \in 1..Len(chs) :
                    chs[i].id = channel_id /\ chs[i].service_id = service_id}
    IN  IF hits = {} THEN 0 ELSE CHOOSE i \in hits : \A j \in hits : i <= j

\* service['last_registered_date'] = last_date, in memory.
SetLastDate(chs, channel_id, service_id, last_date) ==
    LET i == FindService(chs, channel_id, service_id)
    IN  IF i = 0 THEN chs ELSE [chs EXCEPT ![i].last_registered_date = last_date]

\* update_service_last_date as a step: the entry is set in memory, then the
\* whole document is written (save_channels_config); an unwritable store
\* leaves the file as it was and raises.
update_service_last_date(channel_id, service_id, last_date, writable) ==
    /\ channels' = SetLastDate(channels, channel_id, service_id, last_date)
    /\ persisted' = IF FindService(channels, channel_id, service_id) # 0 /\ writable
                    THEN channels'
                    ELSE persisted

UpdateRaises(channel_id, service_id, writable) ==
    FindService(channels, channel_id, service_id) # 0 /\ ~writable

(* --------------------------- cycle scheduler --------------------------- *)

\* AppointmentService.process_all_services: entry.
CycleEntry ==
    /\ mode = "idle"
    /\ mode' = "incremental"
    /\ svc' = 1
    /\ pc' = "service"
    /\ UNCHANGED <<channels, persisted, settings, util, cyc, session, loc, obs>>

\* process_all_services called on its own, whoever the caller is.
process_all_services == CycleEntry /\ UNCHANGED <<bot, tg>>

\* AppointmentService.run_reset_cycle_for_all_services: entry.
run_reset_cycle_for_all_services ==
    /\ mode = "idle"
    /\ IF ~settings.reset_cycle_enabled
       THEN UNCHANGED <<mode, svc, pc>>
       ELSE mode' = "reset" /\ svc' = 1 /\ pc' = "service"
    /\ UNCHANGED <<channels, persisted, settings, util, bot, tg, cyc, session, loc, obs>>

\* for service_data in channel.get('services', []): service_entry = ServiceEntry(...)
\* The reset cycle builds the entry with last_registered_date=None.
BeginService ==
    /\ pc = "service" /\ svc <= Len(channels)
    /\ loc' = [InitLoc EXCEPT !.service_entry =
                  IF mode = "reset"
                  THEN [channels[svc] EXCEPT !.last_registered_date = NoDate]
                  ELSE channels[svc]]
    /\ obs' = InitObs(channels, persisted)
    /\ cyc' = [cyc EXCEPT !.started = Append(@, svc)]
    /\ pc' = "session"
    /\ UNCHANGED <<channels, persisted, settings, util, bot, tg, mode, svc, session>>

\* Variant: the exception of a pass is not caught in the loop over the services
\* and ends the cycle.
HandleException_Aborts ==
    /\ pc = "except"
    /\ mode' = "idle" /\ svc' = 0 /\ pc' = "idle"
    /\ cyc' = InitCyc
    /\ obs' = [obs EXCEPT !.result = "raised"]
    /\ UNCHANGED <<channels, persisted, settings, util, bot, tg, session, loc>>

\* except Exception as e: ... send_error_notification(error_msg, chat_id)
HandleException ==
    /\ pc = "except"
    /\ obs' = [obs EXCEPT !.result = "raised",
                          !.error_events = IF settings.telegram_enabled THEN Inc(@) ELSE @]
    /\ pc' = "returned"
    /\ UNCHANGED <<channels, persisted, settings, util, bot, tg, cyc, mode, svc, session, loc>>

\* Variant: the loop over the services leaves out the service after this one.
NextService_Skip(i) == i + 2

\* for service_data in channel.get('services', []): the next one
NextService(i) == i + 1

\* The service pass has returned or its exception was handled: its locals are
\* gone, the for loop goes on to the next service.
PassExit ==
    /\ pc = "returned"
    /\ svc' = NextService(svc)
    /\ pc' = "service"
    /\ loc' = InitLoc
    /\ obs' = InitObs(channels, persisted)
    /\ UNCHANGED <<channels, persisted, settings, util, cyc, mode, session>>

\* The same in a cycle whose caller is not the worker of main.py.
ServiceDone == PassExit /\ UNCHANGED <<bot, tg>>

\* self._session = None  (end of both cycle kinds)
CycleExit ==
    /\ pc = "service" /\ svc > Len(channels)
    /\ session' = "none"
    /\ mode' = "idle"
    /\ svc' = 0
    /\ pc' = "idle"
    /\ cyc' = InitCyc
    /\ UNCHANGED <<channels, persisted, settings, util, loc, obs>>

\* The cycle returns to a caller that is not the worker of main.py.
EndCycle == CycleExit /\ UNCHANGED <<bot, tg>>

(* ----------------------- shared pipeline steps ------------------------- *)

\* _get_service_details; None (not found, or an error) ends the pass with False.
GetServiceDetails ==
    /\ pc = "details"
    /\ \E found \in BOOLEAN :
          IF found
          THEN /\ pc' = "dates"
               /\ obs' = Called(obs, "details", NoDate)
          ELSE /\ pc' = "returned"
               /\ obs' = [Failed(Called(obs, "details", NoDate)) EXCEPT !.result = "false"]
    /\ UNCHANGED <<channels, persisted, settings, util, bot, tg, cyc, mode, svc, session, loc>>

\* What the loop head and the reserve call can meet: the entry chosen has no
\* "time" key (time_data["time"] raises and the exception leaves the pass),
\* or the reserve call is made and returns an id or none.
ReserveAnswers == {"malformed", "id", "no_id"}

\* Loop head and reserve: random.choice(times_copy); times_copy.remove(...);
\* time_slot = time_data["time"]; _reserve_appointment(...);
\* if not appointment_id: continue
\* (total_attempts, which only selects log lines, is not kept.)
Reserve ==
    /\ pc = "while" /\ QuotaOpen(loc)
    /\ \E t \in loc.times_copy, answer \in ReserveAnswers :
          LET l == [loc EXCEPT !.times_copy = RemoveCandidate(@, t)]
              o == [obs EXCEPT !.paused = FALSE, !.slot_attempts[t] = Inc(@)]
          IN  CASE answer = "malformed" ->
                      /\ loc' = l
                      /\ obs' = [o EXCEPT !.all_ok = FALSE]
                      /\ pc' = "except"
                [] answer = "id" ->
                      /\ loc' = [l EXCEPT !.appointment_id = t]
                      /\ obs' = [Called(o, "reserve", CurDate) EXCEPT
                                    !.reserve_calls = Inc(@), !.reserve_ids = Inc(@)]
                      /\ pc' = AfterReservePc(TRUE)
                [] answer = "no_id" ->
                      /\ loc' = l
                      /\ obs' = [Failed(Called(o, "reserve", CurDate)) EXCEPT
                                    !.reserve_calls = Inc(@)]
                      /\ pc' = AfterReservePc(FALSE)
    /\ UNCHANGED <<channels, persisted, settings, util, bot, tg, cyc, mode, svc, session>>

\* generate_phone; _create_customer (POST /matchCustomer); on an exception: continue
CreateCustomer ==
    /\ pc = "customer"
    /\ \E ok \in BOOLEAN :
          IF ok
          THEN /\ pc' = AfterCustomerPc(TRUE)
               /\ obs' = [Called(obs, "match", CurDate) EXCEPT !.match_calls = Inc(@)]
               /\ loc' = loc
          ELSE /\ pc' = AfterCustomerPc(FALSE)
               /\ obs' = [Failed(Called(obs, "match", CurDate)) EXCEPT !.match_calls = Inc(@)]
               /\ loc' = [loc EXCEPT !.appointment_id = 0]
    /\ UNCHANGED <<channels, persisted, settings, util, bot, tg, cyc, mode, svc, session>>

\* What the confirm POST can meet: a status code, or an exception of the
\* transport (timeout, connection error).
ConfirmAnswers == {"200", "201", "500", "raises"}

\* Variant: every 2xx status counts as confirmed.
ConfirmOk_Any2xx(answer) == answer \in {"200", "201"}

\* return response.status_code == 200;  except Exception: return False
ConfirmOk(answer) == answer = "200"

\* _confirm_appointment: True exactly on HTTP 200; then the counters are
\* incremented and, with Telegram enabled, the visit notification is sent.
Confirm ==
    /\ pc = "confirm"
    /\ \E answer \in ConfirmAnswers :
          IF ConfirmOk(answer)
          THEN /\ loc' = [loc EXCEPT !.successful_registrations = @ + 1,
                                     !.total_successes = @ + 1,
                                     !.appointment_id = 0]
               /\ obs' = [Called(obs, "confirm", CurDate) EXCEPT
                             !.confirm_calls = Inc(@),
                             !.confirm_answer = answer,
                             !.confirmed[CurDate] = @ + 1]
               /\ pc' = IF settings.telegram_enabled THEN "notify" ELSE "success"
          ELSE /\ loc' = [loc EXCEPT !.appointment_id = 0]
               /\ obs' = [Failed(Called(obs, "confirm", CurDate)) EXCEPT
                             !.confirm_calls = Inc(@),
                             !.confirm_answer = answer]
               /\ pc' = AfterFailedConfirmPc
    /\ UNCHANGED <<channels, persisted, settings, util, bot, tg, cyc, mode, svc, session>>

\* await self.telegram.send_visit_notification(visit_info, chat_id): the
\* VisitRegistered event; a failed send is logged there and returns None.
Notify ==
    /\ pc = "notify"
    /\ \E answer \in {"sent", "failed"} :
          obs' = [obs EXCEPT !.visit_events = Inc(@), !.notify_answer = answer]
    /\ pc' = "success"
    /\ UNCHANGED <<channels, persisted, settings, util, bot, tg, cyc, mode, svc, session, loc>>

\* time.sleep(random.uniform(5, 10)), then the loop head again.
Sleep ==
    /\ pc = "sleep"
    /\ pc' = "while"
    /\ obs' = [obs EXCEPT !.paused = TRUE, !.confirm_answer = "none", !.notify_answer = "none"]
    /\ UNCHANGED <<channels, persisted, settings, util, bot, tg, cyc, mode, svc, session, loc>>

(* ------------------- incremental pass: register_visit ------------------ *)

\* if not self._session: self._session = self._create_session()
\* An exception of _create_session leaves the pass.
CreateSession ==
    /\ pc = "session" /\ mode = "incremental"
    /\ IF HasSession(session)
       THEN /\ pc' = "details"
            /\ UNCHANGED <<session, obs, cyc>>
       ELSE \E ok \in BOOLEAN :
               IF ok
               THEN /\ session' = "open"
                    /\ pc' = "details"
                    /\ obs' = Called(obs, "session", NoDate)
                    /\ cyc' = SessionMade(cyc, svc)
               ELSE /\ session' = session
                    /\ pc' = "except"
                    /\ obs' = Failed(Called(obs, "session", NoDate))
                    /\ cyc' = [cyc EXCEPT !.auth_failed = IF @ = 0 THEN svc ELSE @]
    /\ UNCHANGED <<channels, persisted, settings, util, bot, tg, mode, svc, loc>>

\* _get_available_dates: the remote's dates filtered by find_next_dates against
\* the entry's watermark; an error gives []; no dates ends the pass with False.
GetAvailableDates ==
    /\ pc = "dates" /\ mode = "incremental"
    /\ \E dates \in RemoteDateLists, ok \in BOOLEAN :
          LET available_dates ==
                 IF ok
                 THEN find_next_dates(dates, loc.service_entry.last_registered_date)
                 ELSE <<>>
              o == IF ok THEN Called(obs, "dates", NoDate)
                         ELSE Failed(Called(obs, "dates", NoDate))
          IN  IF available_dates = <<>>
              THEN /\ pc' = "returned"
                   /\ obs' = [o EXCEPT !.result = "false"]
                   /\ loc' = loc
              ELSE /\ pc' = "times"
                   /\ obs' = o
                   /\ loc' = [loc EXCEPT !.available_dates = available_dates, !.di = 1]
    /\ UNCHANGED <<channels, persisted, settings, util, bot, tg, cyc, mode, svc, session>>

\* for date in available_dates: times = _get_available_times(...) (an error
\* gives []); if not times: last_processed_date = date; continue
GetAvailableTimes ==
    /\ pc = "times" /\ mode = "incremental"
    /\ \E n \in 0..MaxTimes, ok \in BOOLEAN :
          /\ ~ok => n = 0
          /\ LET o == [Called(obs, "times", CurDate) EXCEPT
                          !.empty_dates = IF n = 0 THEN @ \cup {CurDate} ELSE @,
                          !.times_queried = Append(@, CurDate),
                          !.slot_attempts = [t \in 1..MaxTimes |-> 0]]
             IN  obs' = IF ok THEN o ELSE Failed(o)
          /\ IF n = 0
             THEN /\ loc' = NextDate([loc EXCEPT !.times = 0,
                                                 !.last_processed_date = CurDate])
                  /\ pc' = NextDatePc(loc)
             ELSE /\ loc' = [loc EXCEPT !.successful_registrations = 0,
                                        !.times = n,
                                        !.times_copy = 1..n]
                  /\ pc' = "while"
    /\ UNCHANGED <<channels, persisted, settings, util, bot, tg, cyc, mode, svc, session>>

\* last_processed_date = date; if successful_registrations >= visits_per_day: break
\* else the pause and the next attempt.
RememberDate ==
    /\ pc = "success" /\ mode = "incremental"
    /\ loc' = [loc EXCEPT !.last_processed_date = CurDate]
    /\ pc' = IF loc.successful_registrations >= loc.service_entry.visits_per_day
             THEN "after_while"
             ELSE "sleep"
    /\ IF CommitOnSuccess
       THEN /\ update_service_last_date(loc.service_entry.id,
                                        loc.service_entry.service_id, CurDate, TRUE)
            /\ obs' = [obs EXCEPT !.update_calls = Inc(@), !.committed = CurDate,
                                  !.confirm_answer = "none", !.notify_answer = "none"]
       ELSE /\ UNCHANGED <<channels, persisted>>
            /\ obs' = [obs EXCEPT !.confirm_answer = "none", !.notify_answer = "none"]
    /\ UNCHANGED <<settings, util, bot, tg, cyc, mode, svc, session>>

\* After the while loop: if successful_registrations > 0 or not times_copy:
\* last_processed_date = date; if successful_registrations > 0: break
AfterWhile ==
    /\ mode = "incremental"
    /\ pc = "after_while" \/ (pc = "while" /\ ~QuotaOpen(loc))
    /\ LET l == IF loc.successful_registrations > 0 \/ loc.times_copy = {}
                THEN [loc EXCEPT !.last_processed_date = CurDate]
                ELSE loc
       IN  IF BreakOnSuccess(loc)
           THEN /\ loc' = l
                /\ pc' = "after_for"
           ELSE /\ loc' = NextDate(l)
                /\ pc' = NextDatePc(loc)
    /\ obs' = [obs EXCEPT !.paused = FALSE]
    /\ UNCHANGED <<channels, persisted, settings, util, bot, tg, cyc, mode, svc, session>>

\* if total_successes > 0 and last_processed_date:
\*     self.config.update_service_last_date(...); return True
\* return False
Commit ==
    /\ pc = "after_for" /\ mode = "incremental"
    /\ IF CommitDate(loc) # NoDate
       THEN \E writable \in BOOLEAN :
               /\ update_service_last_date(loc.service_entry.id,
                                           loc.service_entry.service_id,
                                           CommitDate(loc), writable)
               /\ IF UpdateRaises(loc.service_entry.id, loc.service_entry.service_id, writable)
                  THEN /\ pc' = "except"
                       /\ obs' = [obs EXCEPT !.all_ok = FALSE,
                                             !.update_calls = Inc(@),
                                             !.committed = CommitDate(loc)]
                  ELSE /\ pc' = "returned"
                       /\ obs' = [obs EXCEPT !.update_calls = Inc(@),
                                             !.committed = CommitDate(loc),
                                             !.result = "true"]
       ELSE /\ UNCHANGED <<channels, persisted>>
            /\ pc' = "returned"
            /\ obs' = [obs EXCEPT !.result = "false"]
    /\ UNCHANGED <<settings, util, bot, tg, cyc, mode, svc, session, loc>>

(* ---------------- reset pass: register_visit_from_date ----------------- *)

\* Variant: the reset pass keeps a session it holds, as the incremental pass does.
ResetCreateSession_Reuses ==
    /\ pc = "session" /\ mode = "reset"
    /\ IF session = "open"
       THEN /\ pc' = "details"
            /\ UNCHANGED <<session, obs, cyc>>
       ELSE \E ok \in BOOLEAN :
               IF ok
               THEN /\ session' = "open"
                    /\ pc' = "details"
                    /\ obs' = Called(obs, "session", NoDate)
                    /\ cyc' = SessionMade(cyc, svc)
               ELSE /\ session' = session
                    /\ pc' = "except"
                    /\ obs' = Failed(Called(obs, "session", NoDate))
                    /\ cyc' = [cyc EXCEPT !.auth_failed = IF @ = 0 THEN svc ELSE @]
    /\ UNCHANGED <<channels, persisted, settings, util, bot, tg, mode, svc, loc>>

\* if self._session: self._session.close(); self._session = self._create_session()
ResetCreateSession ==
    /\ pc = "session" /\ mode = "reset"
    /\ \E ok \in BOOLEAN :
          IF ok
          THEN /\ session' = "open"
               /\ pc' = "details"
               /\ obs' = Called(obs, "session", NoDate)
               /\ cyc' = SessionMade(SessionClosed(cyc, session), svc)
          ELSE /\ session' = IF session = "none" THEN "none" ELSE "closed"
               /\ pc' = "except"
               /\ obs' = Failed(Called(obs, "session", NoDate))
               /\ cyc' = [SessionClosed(cyc, session) EXCEPT !.auth_failed = IF @ = 0 THEN svc ELSE @]
    /\ UNCHANGED <<channels, persisted, settings, util, bot, tg, mode, svc, loc>>

\* _get_available_dates_from_date: the remote's dates filtered by
\* find_dates_from_date(dates, start_date, max_future_days); start_date is the
\* day the cycle started, datetime.now() may already be the day after.
ResetGetAvailableDates ==
    /\ pc = "dates" /\ mode = "reset"
    /\ \E dates \in RemoteDateLists, ok \in BOOLEAN, now_day \in {Today, Today + 1} :
          LET available_dates ==
                 IF ok
                 THEN find_dates_from_date(dates, Today, now_day, settings.max_future_days)
                 ELSE <<>>
              o == IF ok THEN Called(obs, "dates", NoDate)
                         ELSE Failed(Called(obs, "dates", NoDate))
          IN  IF available_dates = <<>>
              THEN /\ pc' = "returned"
                   /\ obs' = [o EXCEPT !.result = "false"]
                   /\ loc' = loc
              ELSE /\ pc' = "times"
                   /\ obs' = o
                   /\ loc' = [loc EXCEPT !.available_dates = available_dates, !.di = 1]
    /\ UNCHANGED <<channels, persisted, settings, util, bot, tg, cyc, mode, svc, session>>

\* for date in available_dates: times = _get_available_times(...);
\* if not times: continue
ResetGetAvailableTimes ==
    /\ pc = "times" /\ mode = "reset"
    /\ \E n \in 0..MaxTimes, ok \in BOOLEAN :
          /\ ~ok => n = 0
          /\ LET o == [Called(obs, "times", CurDate) EXCEPT
                          !.empty_dates = IF n = 0 THEN @ \cup {CurDate} ELSE @,
                          !.times_queried = Append(@, CurDate),
                          !.slot_attempts = [t \in 1..MaxTimes |-> 0]]
             IN  obs' = IF ok THEN o ELSE Failed(o)
          /\ IF n = 0
             THEN /\ loc' = NextDate([loc EXCEPT !.times = 0])
                  /\ pc' = NextDatePc(loc)
             ELSE /\ loc' = [loc EXCEPT !.successful_registrations = 0,
                                        !.times = n,
                                        !.times_copy = 1..n]
                  /\ pc' = "while"
    /\ UNCHANGED <<channels, persisted, settings, util, bot, tg, cyc, mode, svc, session>>

\* if successful_registrations >= service_entry.visits_per_day: break
\* else the pause and the next attempt.
ResetQuotaCheck ==
    /\ pc = "success" /\ mode = "reset"
    /\ pc' = IF loc.successful_registrations >= loc.service_entry.visits_per_day
             THEN "after_while"
             ELSE "sleep"
    /\ obs' = [obs EXCEPT !.confirm_answer = "none", !.notify_answer = "none"]
    /\ UNCHANGED <<channels, persisted, settings, util, bot, tg, cyc, mode, svc, session, loc>>

\* Variant: the reset pass leaves the loop over dates at the first date with a
\* registration, as the incremental pass does.
ResetAfterWhile_Breaks ==
    /\ mode = "reset"
    /\ pc = "after_while" \/ (pc = "while" /\ ~QuotaOpen(loc))
    /\ loc' = IF loc.successful_registrations > 0 THEN loc ELSE NextDate(loc)
    /\ pc' = IF loc.successful_registrations > 0 THEN "after_for" ELSE NextDatePc(loc)
    /\ obs' = [obs EXCEPT !.paused = FALSE]
    /\ UNCHANGED <<channels, persisted, settings, util, bot, tg, cyc, mode, svc, session>>

\* The while loop of a date has ended: the for loop goes on to the next date.
ResetAfterWhile ==
    /\ mode = "reset"
    /\ pc = "after_while" \/ (pc = "while" /\ ~QuotaOpen(loc))
    /\ loc' = NextDate(loc)
    /\ pc' = NextDatePc(loc)
    /\ obs' = [obs EXCEPT !.paused = FALSE]
    /\ UNCHANGED <<channels, persisted, settings, util, bot, tg, cyc, mode, svc, session>>

\* Variant: the reset pass ends like the incremental one, committing the last
\* date on which it registered a visit.
ResetReturn_Commits ==
    /\ pc = "after_for" /\ mode = "reset"
    /\ obs' = [obs EXCEPT !.result = IF loc.total_successes > 0 THEN "true" ELSE "false"]
    /\ pc' = "returned"
    /\ IF loc.total_successes > 0
       THEN update_service_last_date(channels[svc].id, channels[svc].service_id,
                                     CurDate, TRUE)
       ELSE UNCHANGED <<channels, persisted>>
    /\ UNCHANGED <<settings, util, bot, tg, cyc, mode, svc, session, loc>>

\* if total_registered > 0: return True  else: return False
\* (no update_service_last_date anywhere in the reset pass)
ResetReturn ==
    /\ pc = "after_for" /\ mode = "reset"
    /\ obs' = [obs EXCEPT !.result = IF loc.total_successes > 0 THEN "true" ELSE "false"]
    /\ pc' = "returned"
    /\ UNCHANGED <<channels, persisted, settings, util, bot, tg, cyc, mode, svc, session, loc>>

(* ---------------------------- specification ---------------------------- *)

Next ==
    \/ process_all_services
    \/ run_reset_cycle_for_all_services
    \/ BeginService
    \/ HandleException
    \/ ServiceDone
    \/ EndCycle
    \/ GetServiceDetails
    \/ Reserve
    \/ CreateCustomer
    \/ Confirm
    \/ Notify
    \/ Sleep
    \/ CreateSession
    \/ GetAvailableDates
    \/ GetAvailableTimes
    \/ RememberDate
    \/ AfterWhile
    \/ Commit
    \/ ResetCreateSession
    \/ ResetGetAvailableDates
    \/ ResetGetAvailableTimes
    \/ ResetQuotaCheck
    \/ ResetAfterWhile
    \/ ResetReturn

Spec == Init /\ [][Next]_vars

\* Every remote call is made with a timeout and every pause is finite, so a
\* cycle that has a step to take takes one; whether a further cycle is
\* started is left open.
CycleStep == Next /\ mode # "idle"

FairSpec == Spec /\ WF_vars(CycleStep)

(* --------------- incremental cycles one after another ------------------ *)

\* The service pass is over, as in ServiceDone; a commit that has returned is
\* kept for the cycles that follow.
ServiceDoneKept ==
    /\ PassExit
    /\ bot' = [bot EXCEPT !.committed =
                  IF obs.result = "true" THEN @ \cup {<<svc, obs.committed>>} ELSE @]
    /\ UNCHANGED tg

NextCycles ==
    \/ process_all_services
    \/ BeginService
    \/ HandleException
    \/ ServiceDoneKept
    \/ EndCycle
    \/ GetServiceDetails
    \/ Reserve
    \/ CreateCustomer
    \/ Confirm
    \/ Notify
    \/ Sleep
    \/ CreateSession
    \/ GetAvailableDates
    \/ GetAvailableTimes
    \/ RememberDate
    \/ AfterWhile
    \/ Commit

\* process_all_services called again and again, as the worker loop of main.py
\* does, with no reset cycle in between (main.py starts none).
SpecCycles == Init /\ [][NextCycles]_vars

(* ------------------ utils.py: the functions called alone --------------- *)

appvars == <<channels, persisted, settings, mode, svc, pc, session, loc, obs, cyc,
             bot, tg>>

RECURSIVE Pow(_, _)
Pow(b, e) == IF e = 0 THEN 1 ELSE b * Pow(b, e - 1)

\* Variant: the test for the last attempt is one off (attempt == max_retries).
IsLastAttempt_OneOff(attempt, max_retries) == attempt = max_retries

\* if attempt == max_retries - 1: raise e
IsLastAttempt(attempt, max_retries) == attempt = max_retries - 1

\* delay = initial_delay * (delay_multiplier ** attempt)
RetryDelay(initial_delay, delay_multiplier, attempt) ==
    initial_delay * Pow(delay_multiplier, attempt)

\* retry_request(func, max_retries=, initial_delay=, delay_multiplier=) is
\* called (retry_request_async has the same loop around session.request).
\* range(n) is empty for n <= 0: the call then returns None without calling func.
retry_request ==
    /\ util = NoCall
    /\ \E max_retries \in (0 - MaxNegRetries)..MaxRetries, initial_delay \in 1..MaxDelay,
          delay_multiplier \in 1..MaxMultiplier :
          util' = [fn |-> "retry_request",
                   max_retries |-> max_retries,
                   initial_delay |-> initial_delay,
                   delay_multiplier |-> delay_multiplier,
                   attempt |-> 0,          \* the loop variable
                   calls |-> 0,            \* invocations of func so far
                   sleeps |-> <<>>,        \* delays slept so far, without the jitter
                   at |-> IF max_retries <= 0 THEN "done" ELSE "call",
                   outcome |-> IF max_retries <= 0 THEN "returned" ELSE "running",
                   value |-> 0,            \* the invocation whose result is returned
                   error |-> 0]            \* the invocation whose error is raised
    /\ UNCHANGED appvars

\* try: return func(*args, **kwargs)
\* except Exception as e: if attempt == max_retries - 1: raise e
RetryAttempt ==
    /\ util.fn = "retry_request" /\ util.at = "call"
    /\ \E ok \in BOOLEAN :
          LET n == util.calls + 1
          IN  util' = IF ok
                      THEN [util EXCEPT !.calls = n, !.at = "done",
                                        !.outcome = "returned", !.value = n]
                      ELSE IF IsLastAttempt(util.attempt, util.max_retries)
                      THEN [util EXCEPT !.calls = n, !.at = "done",
                                        !.outcome = "raised", !.error = n]
                      ELSE [util EXCEPT !.calls = n, !.at = "sleep"]
    /\ UNCHANGED appvars

\* time.sleep(delay + random.uniform(0, 1)), then the next value of attempt;
\* when range(max_retries) is used up the function ends and returns None.
RetrySleep ==
    /\ util.fn = "retry_request" /\ util.at = "sleep"
    /\ LET u == [util EXCEPT
                    !.sleeps = Append(@, RetryDelay(util.initial_delay,
                                                    util.delay_multiplier, util.attempt)),
                    !.attempt = @ + 1]
       IN  util' = IF u.attempt < u.max_retries
                   THEN [u EXCEPT !.at = "call"]
                   ELSE [u EXCEPT !.at = "done", !.outcome = "returned"]
    /\ UNCHANGED appvars

\* random.uniform(0, 1), added to the delay of every sleep.
Jitter == "uniform(0, 1)"

\* retry_request run to its end on a given pattern of failures: fails[n] says
\* whether the n-th invocation of func raises. The result holds the number of
\* invocations, the sleeps and how the call ended.
RECURSIVE RunRetryRequest(_, _, _, _, _, _)
RunRetryRequest(max_retries, initial_delay, delay_multiplier, fails, attempt, sleeps) ==
    IF attempt >= max_retries
    THEN [calls |-> attempt, sleeps |-> sleeps, outcome |-> "returned", by |-> 0]
    ELSE IF ~fails[attempt + 1]
    THEN [calls |-> attempt + 1, sleeps |-> sleeps, outcome |-> "returned",
          by |-> attempt + 1]
    ELSE IF IsLastAttempt(attempt, max_retries)
    THEN [calls |-> attempt + 1, sleeps |-> sleeps, outcome |-> "raised",
          by |-> attempt + 1]
    ELSE RunRetryRequest(max_retries, initial_delay, delay_multiplier, fails, attempt + 1,
                         Append(sleeps,
                                [delay |-> RetryDelay(initial_delay, delay_multiplier, attempt),
                                 plus |-> Jitter]))

\* retry_request_async: if attempt == max_retries - 1: ... raise e
AsyncIsLastAttempt(attempt, max_retries) == attempt = max_retries - 1

\* Variant: the exponent of the suspending retrier starts at 1.
AsyncRetryDelay_FromOne(initial_delay, delay_multiplier, attempt) ==
    initial_delay * Pow(delay_multiplier, attempt + 1)

\* retry_request_async: delay = initial_delay * (delay_multiplier ** attempt)
AsyncRetryDelay(initial_delay, delay_multiplier, attempt) ==
    initial_delay * Pow(delay_multiplier, attempt)

\* retry_request_async run to its end on a pattern of failures: fails[n] says
\* whether the n-th session.request (with raise_for_status and text) raises;
\* the sleeps are awaits of asyncio.sleep(delay + random.uniform(0, 1)).
RECURSIVE RunRetryRequestAsync(_, _, _, _, _, _)
RunRetryRequestAsync(max_retries, initial_delay, delay_multiplier, fails, attempt, sleeps) ==
    IF attempt >= max_retries
    THEN [calls |-> attempt, sleeps |-> sleeps, outcome |-> "returned", by |-> 0]
    ELSE IF ~fails[attempt + 1]
    THEN [calls |-> attempt + 1, sleeps |-> sleeps, outcome |-> "returned",
          by |-> attempt + 1]
    ELSE IF AsyncIsLastAttempt(attempt, max_retries)
    THEN [calls |-> attempt + 1, sleeps |-> sleeps, outcome |-> "raised",
          by |-> attempt + 1]
    ELSE RunRetryRequestAsync(max_retries, initial_delay, delay_multiplier, fails,
                              attempt + 1,
                              Append(sleeps,
                                     [delay |-> AsyncRetryDelay(initial_delay,
                                                                delay_multiplier, attempt),
                                      plus |-> Jitter]))

\* Both retriers are called with equal arguments and meet the same pattern of
\* failures.
CallBothRetriers ==
    /\ util = NoCall
    /\ \E max_retries \in (0 - MaxNegRetries)..MaxRetries, initial_delay \in 1..MaxDelay,
          delay_multiplier \in 1..MaxMultiplier, fails \in [1..MaxRetries -> BOOLEAN] :
          util' = [fn |-> "retry_both",
                   max_retries |-> max_retries,
                   initial_delay |-> initial_delay,
                   delay_multiplier |-> delay_multiplier,
                   fails |-> fails,
                   blocking |-> RunRetryRequest(max_retries, initial_delay,
                                                delay_multiplier, fails, 0, <<>>),
                   suspending |-> RunRetryRequestAsync(max_retries, initial_delay,
                                                       delay_multiplier, fails, 0, <<>>)]
    /\ UNCHANGED appvars

\* The dates given to the filters when they are called alone.
FilterDates == {DateStr(i) : i \in 1..MaxFilterDate}

\* find_next_dates(dates, last_date) is called and returns.
CallFindNextDates ==
    /\ util = NoCall
    /\ \E dates \in SeqsOver(FilterDates), last_date \in {NoDate} \cup FilterDates :
          util' = [fn |-> "find_next_dates", dates |-> dates, last_date |-> last_date,
                   result |-> find_next_dates(dates, last_date)]
    /\ UNCHANGED appvars

\* find_dates_from_date(dates, start_date, max_future_days) is called on the
\* day now_day (datetime.now()) and returns.
CallFindDatesFromDate ==
    /\ util = NoCall
    /\ \E dates \in SeqsOver(FilterDates), start_day \in 0..MaxFilterDate,
          now_day \in 0..MaxFilterDate, max_future_days \in 0..MaxWindow :
          util' = [fn |-> "find_dates_from_date", dates |-> dates,
                   start_day |-> start_day, now_day |-> now_day,
                   max_future_days |-> max_future_days,
                   result |-> find_dates_from_date(dates, start_day, now_day,
                                                   max_future_days)]
    /\ UNCHANGED appvars

\* The call is over; its caller goes on.
UtilReturn ==
    /\ util.fn # "none"
    /\ util.fn \in {"retry_request", "setup_csrf_token"} => util.at = "done"
    /\ util' = NoCall
    /\ UNCHANGED appvars

\* for attempt in range(3)
CsrfAttempts == 3

\* time.sleep(2)
CsrfPause == 2

\* setup_csrf_token(session, base_url) is called by _create_session.
setup_csrf_token ==
    /\ util = NoCall
    /\ util' = [fn |-> "setup_csrf_token",
                attempt |-> 0,        \* the loop variable
                events |-> <<>>,      \* the requests and the pauses, in order
                at |-> "get",
                outcome |-> "running"]
    /\ UNCHANGED appvars

\* The loop goes on to the next value of attempt; after the last one:
\* raise Exception("...")
CsrfNextAttempt(u) ==
    IF u.attempt + 1 < CsrfAttempts
    THEN [u EXCEPT !.attempt = @ + 1, !.at = "get"]
    ELSE [u EXCEPT !.attempt = @ + 1, !.at = "done", !.outcome = "raised"]

\* config = session.get(.../configuration, timeout=30).json()
\* csrf_token = config.get('token'); if csrf_token: ... return csrf_token
\* A response without a token falls through to the next iteration; an
\* exception is caught and leads to the pause.
CsrfGet ==
    /\ util.fn = "setup_csrf_token" /\ util.at = "get"
    /\ \E answer \in {"token", "no_token", "raises"} :
          LET u == [util EXCEPT !.events = Append(@, [e |-> "get", s |-> 0])]
          IN  util' = CASE answer = "token" ->
                              [u EXCEPT !.at = "done", !.outcome = "returned"]
                        [] answer = "no_token" -> CsrfNextAttempt(u)
                        [] answer = "raises" -> [u EXCEPT !.at = "sleep"]
    /\ UNCHANGED appvars

\* except Exception as e: logging.warning(...); time.sleep(2)
CsrfSleep ==
    /\ util.fn = "setup_csrf_token" /\ util.at = "sleep"
    /\ util' = CsrfNextAttempt(
                  [util EXCEPT !.events = Append(@, [e |-> "sleep", s |-> CsrfPause])])
    /\ UNCHANGED appvars

NextUtils ==
    \/ setup_csrf_token
    \/ CsrfGet
    \/ CsrfSleep
    \/ retry_request
    \/ CallBothRetriers
    \/ RetryAttempt
    \/ RetrySleep
    \/ CallFindNextDates
    \/ CallFindDatesFromDate
    \/ UtilReturn

SpecUtils == Init /\ [][NextUtils]_vars

(* ------------------- main.py: the bot and its two tasks ---------------- *)

cyclevars == <<channels, persisted, settings, mode, svc, pc, session, loc, obs, cyc, util>>

\* await asyncio.sleep(1) of the wait loop, in seconds
TickLength == 1

\* await asyncio.sleep(60)  # pause after an error
ErrorPause == 60

\* The tasks run() creates.
Tasks == {"worker", "polling"}

\* task.done()
TaskIsDone(b, t) ==
    IF t = "worker" THEN b.worker \in {"returned", "cancelled"}
                    ELSE b.polling \in {"returned", "cancelled"}

\* TelegramService.start_workers: num_workers tasks of _callback_worker, each
\* going to its first "await self.task_queue.get()".
start_workers(t) ==
    [t EXCEPT !.workers = 1..NumWorkers, !.at = [w \in 1..NumWorkers |-> "get"]]

\* AppointmentBot.initialize. With Telegram disabled it returns before any
\* service is made; with no bot token it exits. What the channel entries of
\* channels.json hold is looked at by process_all_services only.
initialize ==
    /\ bot.main = "start"
    /\ IF ~settings.telegram_enabled
       THEN /\ bot' = [bot EXCEPT !.main = "initialized"]
            /\ tg' = tg
       ELSE \E bot_token \in BOOLEAN, channel_keys \in BOOLEAN :
               IF ~bot_token
               THEN /\ bot' = [bot EXCEPT !.main = "sys_exit"]
                    /\ tg' = tg
               ELSE /\ bot' = [bot EXCEPT !.main = "initialized",
                                          !.has_services = TRUE,
                                          !.channel_keys = channel_keys]
                    /\ tg' = start_workers(tg)
    /\ UNCHANGED cyclevars

\* AppointmentBot.run up to asyncio.wait: self.running = True, the two tasks.
run ==
    /\ bot.main = "initialized"
    /\ bot' = [bot EXCEPT !.main = "wait", !.running = TRUE,
                          !.worker = "call", !.polling = "start"]
    /\ UNCHANGED tg
    /\ UNCHANGED cyclevars

\* Variant: the signal handler also cancels the task of the appointment worker.
handle_signal_CancelsWorker ==
    /\ bot.running
    /\ bot' = [bot EXCEPT !.running = FALSE,
                          !.cancel = IF TaskIsDone(bot, "worker") THEN @ ELSE @ \cup {"worker"}]
    /\ UNCHANGED tg
    /\ UNCHANGED cyclevars

\* AppointmentBot.handle_signal (SIGINT, SIGTERM): self.running = False, at
\* any moment, whatever the tasks are doing.
handle_signal ==
    /\ bot.running
    /\ bot' = [bot EXCEPT !.running = FALSE]
    /\ UNCHANGED tg
    /\ UNCHANGED cyclevars

\* start_appointment_worker: while self.running: try:
\*     await self.appointment_service.process_all_services()
\* Without the service (None) the call raises AttributeError; a first channel
\* without 'id', 'name' or 'chat_id' makes process_all_services raise KeyError
\* before its first service; both go to "except Exception".
WorkerCallsCycle ==
    /\ bot.worker = "call" /\ bot.running
    /\ IF bot.has_services /\ bot.channel_keys
       THEN /\ CycleEntry
            /\ bot' = [bot EXCEPT !.worker = "cycle"]
       ELSE /\ bot' = [bot EXCEPT !.worker = "error_sleep"]
            /\ UNCHANGED cyclevars
    /\ UNCHANGED tg

\* while self.running: the flag is false and the coroutine returns.
WorkerExits ==
    /\ bot.worker = "call" /\ ~bot.running
    /\ bot' = [bot EXCEPT !.worker = "returned", !.cancel = @ \ {"worker"}]
    /\ UNCHANGED tg
    /\ UNCHANGED cyclevars

\* process_all_services has returned: the wait loop begins.
WorkerCycleReturns ==
    /\ bot.worker = "cycle"
    /\ CycleExit
    /\ bot' = [bot EXCEPT !.worker = "wait", !.ticks = WaitTicks]
    /\ UNCHANGED tg

\* for _ in range(self.config.repeat_minutes * 60):
\*     if not self.running: break
\*     await asyncio.sleep(1)
WaitCheck ==
    /\ bot.worker = "wait"
    /\ bot' = IF bot.ticks = 0 \/ ~bot.running
              THEN [bot EXCEPT !.worker = "call", !.ticks = 0]
              ELSE [bot EXCEPT !.worker = "tick"]
    /\ UNCHANGED tg
    /\ UNCHANGED cyclevars

\* asyncio.sleep(1) is over.
TickOver ==
    /\ bot.worker = "tick" /\ "worker" \notin bot.cancel
    /\ bot' = [bot EXCEPT !.worker = "wait", !.ticks = @ - 1]
    /\ UNCHANGED tg
    /\ UNCHANGED cyclevars

\* except Exception: await asyncio.sleep(60) is over; back to the while test.
ErrorSleepOver ==
    /\ bot.worker = "error_sleep" /\ "worker" \notin bot.cancel
    /\ bot' = [bot EXCEPT !.worker = "call"]
    /\ UNCHANGED tg
    /\ UNCHANGED cyclevars

\* The worker task is suspended in an await: the sleeps of the worker loop,
\* send_visit_notification after a confirmation, send_error_notification in
\* the exception handler of the loop over the services. Everything else in a
\* cycle (requests, time.sleep) does not give control back.
WorkerAtAwait ==
    \/ bot.worker \in {"tick", "error_sleep"}
    \/ /\ bot.worker = "cycle"
       /\ pc = "notify" \/ (pc = "except" /\ settings.telegram_enabled)

\* task.cancel() is delivered: CancelledError is raised at the await; it is no
\* Exception, so neither the handler of the loop over the services nor the
\* one of the worker loop catches it, and the locals of the cycle are gone.
WorkerCancelled ==
    /\ "worker" \in bot.cancel /\ WorkerAtAwait
    /\ bot' = [bot EXCEPT !.worker = "cancelled", !.cancel = @ \ {"worker"}]
    /\ IF bot.worker = "cycle"
       THEN /\ mode' = "idle" /\ svc' = 0 /\ pc' = "idle"
            /\ loc' = InitLoc /\ cyc' = InitCyc
            /\ UNCHANGED <<channels, persisted, settings, session, obs, util>>
       ELSE UNCHANGED cyclevars
    /\ UNCHANGED tg

\* start_telegram_polling: if self.telegram_service: await ...poll_updates()
PollingStarts ==
    /\ bot.polling = "start" /\ "polling" \notin bot.cancel
    /\ bot' = [bot EXCEPT !.polling = IF bot.has_services THEN "get_updates" ELSE "returned"]
    /\ UNCHANGED tg
    /\ UNCHANGED cyclevars

\* The polling task is cancelled at one of its awaits (or before its start).
PollingCancelled ==
    /\ "polling" \in bot.cancel
    /\ bot.polling \in {"start", "get_updates", "answer", "pause"}
    /\ bot' = [bot EXCEPT !.polling = "cancelled", !.cancel = @ \ {"polling"}]
    /\ UNCHANGED tg
    /\ UNCHANGED cyclevars

\* done, pending = await asyncio.wait(self._tasks, return_when=FIRST_COMPLETED)
\* for task in pending: task.cancel()
WaitReturns ==
    /\ bot.main = "wait"
    /\ \E t \in Tasks : TaskIsDone(bot, t)
    /\ bot' = [bot EXCEPT !.main = "cancel_pending",
                          !.cancel = {t \in Tasks : ~TaskIsDone(bot, t)}]
    /\ UNCHANGED tg
    /\ UNCHANGED cyclevars

\* try: await task  except asyncio.CancelledError: pass   then finally: shutdown()
PendingAwaited ==
    /\ bot.main = "cancel_pending"
    /\ \A t \in Tasks : TaskIsDone(bot, t)
    /\ bot' = [bot EXCEPT !.main = "shutdown"]
    /\ UNCHANGED tg
    /\ UNCHANGED cyclevars

\* AppointmentBot.shutdown: self.running = False;
\* if self.telegram_service: await self.telegram_service.stop_workers()
shutdown ==
    /\ bot.main = "shutdown"
    /\ bot' = [bot EXCEPT !.running = FALSE,
                          !.main = IF bot.has_services THEN "join" ELSE "cancel_tasks"]
    /\ UNCHANGED tg
    /\ UNCHANGED cyclevars

\* Variant: stop_workers does not wait for the queue.
JoinReturns_NoWait(t) == TRUE

\* await self.task_queue.join(): returns when the count of unfinished tasks is 0.
JoinReturns(t) == t.unfinished = 0

\* TelegramService.stop_workers: join, then worker.cancel() for every worker
\* and self._workers.clear().
stop_workers ==
    /\ bot.main = "join"
    /\ JoinReturns(tg)
    /\ tg' = [tg EXCEPT !.cancel = tg.workers, !.workers = {}]
    /\ bot' = [bot EXCEPT !.main = "cancel_tasks"]
    /\ UNCHANGED cyclevars

\* for task in self._tasks: if not task.done(): task.cancel(); await task
ShutdownEnds ==
    /\ bot.main = "cancel_tasks"
    /\ LET left == {t \in Tasks : ~TaskIsDone(bot, t)}
       IN  IF left = {}
           THEN bot' = [bot EXCEPT !.main = "exited"]
           ELSE /\ ~(left \subseteq bot.cancel)
                /\ bot' = [bot EXCEPT !.cancel = @ \cup left]
    /\ UNCHANGED tg
    /\ UNCHANGED cyclevars

NextBot ==
    \/ initialize
    \/ run
    \/ handle_signal
    \/ WorkerCallsCycle
    \/ WorkerExits
    \/ WorkerCycleReturns
    \/ WaitCheck
    \/ TickOver
    \/ ErrorSleepOver
    \/ WorkerCancelled
    \/ PollingStarts
    \/ PollingCancelled
    \/ WaitReturns
    \/ PendingAwaited
    \/ shutdown
    \/ stop_workers
    \/ ShutdownEnds
    \/ BeginService
    \/ HandleException
    \/ ServiceDone
    \/ GetServiceDetails
    \/ Reserve
    \/ CreateCustomer
    \/ Confirm
    \/ Notify
    \/ Sleep
    \/ CreateSession
    \/ GetAvailableDates
    \/ GetAvailableTimes
    \/ RememberDate
    \/ AfterWhile
    \/ Commit

\* The bot as main.py runs it: the incremental cycles are started by the
\* worker task only.
SpecBot == Init /\ [][NextBot]_vars

(* ------------- telegram_service.py: callback queue and workers --------- *)

\* self.task_queue = asyncio.Queue(): no maxsize is given, and 0 stands for
\* a queue without limit.
QueueMaxsize == 0

\* Queue.full()
QueueFull(t) == QueueMaxsize > 0 /\ Len(t.queue) >= QueueMaxsize

\* await self.task_queue.put({...})
Put(t) ==
    [t EXCEPT !.enqueued = @ + 1,
              !.queue = Append(@, t.enqueued + 1),
              !.unfinished = @ + 1]

\* poll_updates: getUpdates answers with a callback query (given to
\* _process_callback_query, which puts the item and then answers the
\* callback), with nothing of interest, or fails.
PollUpdates ==
    /\ bot.polling = "get_updates" /\ "polling" \notin bot.cancel
    /\ \E answer \in {"callback", "nothing", "error"} :
          IF answer = "callback" /\ tg.enqueued < MaxCallbacks /\ ~QueueFull(tg)
          THEN /\ tg' = Put(tg)
               /\ bot' = [bot EXCEPT !.polling = "answer"]
          ELSE /\ tg' = tg
               /\ bot' = [bot EXCEPT !.polling = "pause"]
    /\ UNCHANGED cyclevars

\* answerCallbackQuery has ended (its failure is logged); the next update of
\* the same answer, if it has a callback query, is processed at once.
AnswerCallback ==
    /\ bot.polling = "answer" /\ "polling" \notin bot.cancel
    /\ \E more \in BOOLEAN :
          IF more /\ tg.enqueued < MaxCallbacks /\ ~QueueFull(tg)
          THEN /\ tg' = Put(tg)
               /\ bot' = bot
          ELSE /\ tg' = tg
               /\ bot' = [bot EXCEPT !.polling = "pause"]
    /\ UNCHANGED cyclevars

\* await asyncio.sleep(1) (after asyncio.sleep(10) when the request failed)
PollPause ==
    /\ bot.polling = "pause" /\ "polling" \notin bot.cancel
    /\ bot' = [bot EXCEPT !.polling = "get_updates"]
    /\ UNCHANGED tg
    /\ UNCHANGED cyclevars

\* task_data = await self.task_queue.get()
CallbackWorkerGet ==
    /\ \E w \in 1..NumWorkers :
          /\ tg.at[w] = "get" /\ w \notin tg.cancel
          /\ tg.queue # <<>>
          /\ tg' = [tg EXCEPT !.queue = Tail(@),
                              !.item[w] = Head(tg.queue),
                              !.gets[w] = @ + 1,
                              !.at[w] = "handle"]
    /\ UNCHANGED bot
    /\ UNCHANGED cyclevars

\* self.task_queue.task_done(): ValueError when no task is unfinished.
task_done(t, w) ==
    IF t.unfinished > 0
    THEN [t EXCEPT !.unfinished = @ - 1, !.dones[w] = @ + 1]
    ELSE [t EXCEPT !.dones[w] = @ + 1, !.at[w] = "value_error"]

\* await self._handle_callback_task(session, task_data) has ended (a failed
\* editMessageText is caught and logged inside it); finally: task_done();
\* then the next get.
CallbackWorkerHandle ==
    /\ \E w \in 1..NumWorkers, ok \in BOOLEAN :
          /\ tg.at[w] = "handle" /\ w \notin tg.cancel
          /\ tg' = task_done([tg EXCEPT !.handled = @ \cup {tg.item[w]},
                                        !.edit_failed = IF ok THEN @ ELSE @ \cup {tg.item[w]},
                                        !.item[w] = 0,
                                        !.at[w] = "get"], w)
    /\ UNCHANGED bot
    /\ UNCHANGED cyclevars

\* worker.cancel() is delivered at the await the worker is in:
\* except asyncio.CancelledError: break, and on the way out
\* finally: self.task_queue.task_done(), whether an item was taken or not.
CallbackWorkerCancelled ==
    /\ \E w \in tg.cancel :
          /\ tg.at[w] \in {"get", "handle"}
          /\ tg' = task_done([tg EXCEPT !.cancel = @ \ {w},
                                        !.item[w] = 0,
                                        !.at[w] = "ended"], w)
    /\ UNCHANGED bot
    /\ UNCHANGED cyclevars

NextTelegram ==
    \/ initialize
    \/ run
    \/ handle_signal
    \/ WorkerExits
    \/ PollingStarts
    \/ PollUpdates
    \/ AnswerCallback
    \/ PollPause
    \/ PollingCancelled
    \/ WaitReturns
    \/ PendingAwaited
    \/ shutdown
    \/ stop_workers
    \/ ShutdownEnds
    \/ CallbackWorkerGet
    \/ CallbackWorkerHandle
    \/ CallbackWorkerCancelled

\* The Telegram side of the bot: polling, the callback queue and its workers,
\* from start-up to shutdown. The cycles of the appointment worker touch none
\* of it; its task ends when it finds the running flag cleared.
SpecTelegram == Init /\ [][NextTelegram]_vars

(* ------------------------------ properties ----------------------------- *)

InPass == pc \notin {"idle", "service"}

LastDate(entry) == entry.last_registered_date

\* Dates with at least one reservation confirmed in the current pass.
ConfirmedDates == {d \in Dates : obs.confirmed[d] > 0}

\* C1 (as claimed): during an incremental cycle no stored watermark, in memory
\* or in the document, ever becomes smaller (string comparison), and a date
\* given to update_service_last_date is strictly greater than the watermark
\* the service pass started with.
C1_WatermarkNeverRegresses ==
    [][mode = "incremental" =>
          /\ \A i \in 1..Len(channels) :
                /\ StrLeq(LastDate(channels[i]), LastDate(channels'[i]))
                /\ StrLeq(LastDate(persisted[i]), LastDate(persisted'[i]))
          /\ obs'.committed \notin {obs.committed, NoDate} =>
                StrLess(LastDate(loc.service_entry), obs'.committed)]_vars

\* C2: in an incremental pass a date given to update_service_last_date is a
\* date on which the pass confirmed at least one reservation, and the stored
\* watermarks only ever change to such a date.
C2_CommitOnlyConfirmedDate ==
    /\ obs.committed # NoDate => obs.confirmed[obs.committed] >= 1
    /\ InPass =>
          \A i \in 1..Len(channels) :
             LastDate(channels[i]) # LastDate(obs.channels_before[i]) =>
                /\ LastDate(channels[i]) \in Dates
                /\ obs.confirmed[LastDate(channels[i])] >= 1

\* C2 witness: a commit after the pass met a date without times and a failed
\* attempt before its success.
C2_Witness ==
    /\ mode = "incremental" /\ pc = "returned"
    /\ obs.committed # NoDate
    /\ obs.empty_dates # {}
    /\ ~obs.all_ok
    /\ obs.reserve_calls > obs.reserve_ids

\* C3: no step of a reset cycle changes a stored watermark, in memory or in
\* the document, and the ServiceEntry a reset pass works on has no watermark.
C3_ResetNeverWritesWatermark ==
    /\ [][mode = "reset" => channels' = channels /\ persisted' = persisted]_vars
    /\ [](mode = "reset" /\ InPass => LastDate(loc.service_entry) = NoDate)

\* C3 witness: a reset pass of an entry that has a stored watermark ended with
\* confirmed reservations.
C3_Witness ==
    /\ mode = "reset" /\ pc = "returned"
    /\ obs.result = "true"
    /\ LastDate(channels[svc]) # NoDate
    /\ ConfirmedDates # {}

\* C4: in a pass of either kind, the reservations confirmed for a date never
\* exceed visits_per_day, and a reserve call is issued for a date only while
\* its confirmed count is below visits_per_day.
C4_QuotaBound ==
    InPass =>
       /\ \A d \in Dates : obs.confirmed[d] <= loc.service_entry.visits_per_day
       /\ obs.last_call.kind = "reserve" =>
             obs.confirmed[obs.last_call.date] < loc.service_entry.visits_per_day
       /\ loc.service_entry.visits_per_day = 0 => obs.reserve_calls = 0

\* C4 witness: the quota was met on a date that still has a candidate.
C4_Witness ==
    /\ pc = "after_while"
    /\ loc.service_entry.visits_per_day >= 1
    /\ obs.confirmed[CurDate] = loc.service_entry.visits_per_day
    /\ loc.times_copy # {}

\* C5: an incremental pass calls update_service_last_date at most once, and
\* only when its loop over the dates is over (the pass then returns or raises).
C5_OneCommitAfterLoop ==
    mode = "incremental" /\ InPass =>
       /\ obs.update_calls <= 1
       /\ obs.update_calls = 1 => pc \in {"returned", "except"}

\* C5 witness: one commit for a pass that confirmed two reservations.
C5_Witness ==
    /\ mode = "incremental" /\ pc = "returned"
    /\ obs.update_calls = 1
    /\ \E d \in Dates : obs.confirmed[d] = 2

C7_EmptyDateReachesCommit ==
    obs.committed # NoDate /\ obs.empty_dates # {} => obs.committed \in obs.empty_dates

\* C7 (amended): the date given to update_service_last_date is never a date
\* whose times query returned nothing; it is the date the loop over the dates
\* stopped at, whose query returned candidates and on which every reservation
\* of the pass was confirmed.
C7_CommitNeverEmptyDate ==
    mode = "incremental" /\ obs.committed # NoDate =>
       /\ obs.committed \notin obs.empty_dates
       /\ obs.committed = CurDate
       /\ loc.times > 0
       /\ ConfirmedDates = {obs.committed}

\* C7 witness: a commit in a pass that recorded a date without times first.
C7_Witness ==
    /\ mode = "incremental"
    /\ obs.committed # NoDate
    /\ obs.empty_dates # {}
    /\ loc.di > 1

\* The end-to-end scenario: one configured service without watermark, quota 1,
\* Telegram enabled, an incremental pass in which no call has failed.
E2EScenario ==
    /\ mode = "incremental" /\ InPass
    /\ Len(channels) = 1
    /\ LastDate(loc.service_entry) = NoDate
    /\ loc.service_entry.visits_per_day = 1
    /\ settings.telegram_enabled
    /\ obs.all_ok

\* C8: in the end-to-end scenario confirm follows match follows reserve, none
\* is issued twice, and when the remote offered one date with two times the
\* pass ends after exactly one reserve, one match, one confirm and one
\* VisitRegistered event, with the watermark set to that date.
C8_EndToEnd ==
    E2EScenario =>
       /\ obs.visit_events <= obs.confirm_calls
       /\ obs.confirm_calls <= obs.match_calls
       /\ obs.match_calls <= obs.reserve_ids
       /\ obs.reserve_ids <= obs.reserve_calls
       /\ obs.reserve_calls <= 1
       /\ pc = "returned" /\ Len(loc.available_dates) = 1 /\ loc.times = 2 =>
             /\ obs.reserve_calls = 1
             /\ obs.match_calls = 1
             /\ obs.confirm_calls = 1
             /\ obs.visit_events = 1
             /\ obs.update_calls = 1
             /\ obs.result = "true"
             /\ LastDate(channels[1]) = loc.available_dates[1]
             /\ LastDate(persisted[1]) = loc.available_dates[1]

\* C8 witness: the scenario's pass has ended.
C8_Witness ==
    /\ E2EScenario
    /\ pc = "returned" /\ Len(loc.available_dates) = 1 /\ loc.times = 2
    /\ LastDate(channels[1]) = DateStr(1)

\* C9: as long as no reserve call of the pass has returned an id, no
\* match-customer and no confirm call has been issued, no VisitRegistered
\* event emitted, the stored watermarks are unchanged and the pass does not
\* report success.
C9_NoIdNoPipeline ==
    InPass /\ obs.reserve_ids = 0 =>
       /\ obs.match_calls = 0
       /\ obs.confirm_calls = 0
       /\ obs.visit_events = 0
       /\ obs.update_calls = 0
       /\ channels = obs.channels_before
       /\ persisted = obs.persisted_before
       /\ obs.result # "true"

\* C9 witness: a pass has returned after two reserve calls, none with an id.
C9_Witness ==
    /\ pc = "returned"
    /\ obs.reserve_calls = 2
    /\ obs.reserve_ids = 0
    /\ obs.result = "false"

\* C10: in an incremental pass a times query is issued only while nothing has
\* been confirmed, a reserve call only for the date that holds every
\* confirmation so far, and at most one date carries confirmed reservations.
C10_StopAfterFirstSuccessDate ==
    mode = "incremental" /\ InPass =>
       /\ Cardinality(ConfirmedDates) <= 1
       /\ obs.last_call.kind = "times" => ConfirmedDates = {}
       /\ obs.last_call.kind = "reserve" => ConfirmedDates \subseteq {obs.last_call.date}

\* C10 witness: the pass ended on the first of two dates, where it confirmed.
C10_Witness ==
    /\ mode = "incremental" /\ pc = "returned"
    /\ Len(loc.available_dates) = 2 /\ loc.di = 1
    /\ ConfirmedDates = {loc.available_dates[1]}

\* s is an initial part of t.
IsPrefix(s, t) == Len(s) <= Len(t) /\ SubSeq(t, 1, Len(s)) = s

\* C11: a reset pass issues its times queries for the dates the windowed
\* filter returned, in that order and without leaving one out, and a pass that
\* got past the date filter has queried every one of them when it returns,
\* whatever was confirmed on the earlier dates (a pass that an exception has
\* left does not return).
C11_ResetQueriesEveryDate ==
    mode = "reset" /\ InPass =>
       /\ IsPrefix(obs.times_queried, loc.available_dates)
       /\ pc \in {"after_for", "returned"} /\ obs.result # "raised" =>
             obs.times_queried = loc.available_dates

\* C11 witness: a reset pass that met its quota on the first of two dates has
\* queried and confirmed on the second as well.
C11_Witness ==
    /\ mode = "reset" /\ pc = "returned"
    /\ Len(loc.available_dates) = 2
    /\ obs.confirmed[loc.available_dates[1]] = loc.service_entry.visits_per_day
    /\ obs.confirmed[loc.available_dates[2]] > 0
    /\ obs.times_queried = loc.available_dates

\* The pass is inside the while loop over the candidates of a date.
InAttemptLoop == pc \in {"while", "customer", "confirm", "notify", "success", "sleep"}

\* C12: in the attempt loop of a date every candidate the times query returned
\* is chosen for at most one reserve attempt and is gone from the list once
\* chosen, so the attempts never outnumber the candidates; an attempt is under
\* way, or the pause before the next one, only while the quota is open; and
\* once the loop has ended the quota is met or no candidate remains (an
\* exception that leaves the pass does not end the loop, it abandons it).
C12_NoReplacementSampling ==
    InPass =>
       /\ \A t \in 1..MaxTimes :
             /\ obs.slot_attempts[t] <= 1
             /\ obs.slot_attempts[t] = 1 => t \in (1..loc.times) \ loc.times_copy
       /\ Cardinality({t \in 1..MaxTimes : obs.slot_attempts[t] > 0}) <= loc.times
       /\ pc \in {"customer", "confirm", "sleep"} =>
             loc.successful_registrations < loc.service_entry.visits_per_day
       /\ ~InAttemptLoop /\ pc # "except" /\ obs.result # "raised" =>
             \/ loc.successful_registrations >= loc.service_entry.visits_per_day
             \/ loc.times_copy = {}

\* C12 witness: the loop of a date with two candidates was left with the quota
\* still open, each candidate tried once.
C12_Witness ==
    /\ InPass /\ ~InAttemptLoop
    /\ loc.times = 2 /\ loc.times_copy = {}
    /\ loc.successful_registrations < loc.service_entry.visits_per_day
    /\ \A t \in 1..2 : obs.slot_attempts[t] = 1

\* A call of retry_request with max_retries >= 1 is under way or has ended.
RetryCall == util.fn = "retry_request" /\ util.max_retries >= 1

\* C13: retry_request with max_retries = n >= 1 invokes the operation at most
\* n times and sleeps only between two invocations, the k-th sleep lasting
\* initial_delay * multiplier^(k-1) before the jitter (1, 2, 4, 8 for the
\* defaults); it raises only after exactly n invocations and n-1 sleeps, and
\* then the error of the n-th invocation; when an invocation succeeds its
\* result is returned and it was the last invocation.
C13_RetryCeiling ==
    RetryCall =>
       /\ util.calls <= util.max_retries
       /\ Len(util.sleeps) = util.attempt
       /\ util.calls = Len(util.sleeps) + (IF util.at = "call" THEN 0 ELSE 1)
       /\ \A k \in 1..Len(util.sleeps) :
             util.sleeps[k] = util.initial_delay * Pow(util.delay_multiplier, k - 1)
       /\ util.at = "done" => util.outcome \in {"returned", "raised"}
       /\ util.outcome = "raised" =>
             /\ util.calls = util.max_retries
             /\ Len(util.sleeps) = util.max_retries - 1
             /\ util.error = util.max_retries
       /\ util.outcome = "returned" => util.value = util.calls
       /\ /\ util.outcome = "raised"
          /\ util.max_retries = 5 /\ util.initial_delay = 1 /\ util.delay_multiplier = 2
          => util.sleeps = <<1, 2, 4, 8>>

\* C13 witness: the call with the defaults has raised after five failures.
C13_Witness ==
    /\ RetryCall
    /\ util.max_retries = 5 /\ util.initial_delay = 1 /\ util.delay_multiplier = 2
    /\ util.outcome = "raised"
    /\ util.calls = 5

\* The day a date string stands for.
DayOf(d) == d[1] * 10 + d[2]

Elems(seq) == {seq[i] : i \in 1..Len(seq)}

\* The place of d in a list that holds it once.
PosIn(seq, d) == CHOOSE i \in 1..Len(seq) : seq[i] = d

\* out holds elements of in, each once, in the order they have in in.
KeepsOrder(in, out) ==
    \A i, j \in 1..Len(out) : i < j => PosIn(in, out[i]) < PosIn(in, out[j])

\* C14: find_next_dates returns exactly the remote dates that lie, as days,
\* after the watermark, in the remote's order; all of them when the watermark
\* is null; never the watermark's own date. Watermark day 2 against the remote
\* days 1, 2, 3 gives day 3 alone.
C14_IncrementalFilter ==
    util.fn = "find_next_dates" =>
       /\ \A d \in FilterDates :
             d \in Elems(util.result) <=>
                /\ d \in Elems(util.dates)
                /\ util.last_date = NoDate \/ DayOf(d) > DayOf(util.last_date)
       /\ KeepsOrder(util.dates, util.result)
       /\ util.last_date = NoDate => util.result = util.dates
       /\ util.last_date \notin Elems(util.result)
       /\ util.dates = <<DateStr(1), DateStr(2), DateStr(3)>> /\ util.last_date = DateStr(2)
             => util.result = <<DateStr(3)>>

\* C14 witness: the call of the example has returned.
C14_Witness ==
    /\ util.fn = "find_next_dates"
    /\ util.dates = <<DateStr(1), DateStr(2), DateStr(3)>>
    /\ util.last_date = DateStr(2)
    /\ util.result = <<DateStr(3)>>

\* C15: find_dates_from_date returns exactly the remote dates whose day lies
\* between the later of the start day and the day after the current day, and
\* the start day plus max_future_days, both ends included, in the remote's
\* order; the current day itself is never returned. Start day 1, current day
\* 1 and a window of 2 days against the remote days 1, 2, 3 give days 2 and 3.
C15_WindowedFilter ==
    util.fn = "find_dates_from_date" =>
       LET tomorrow == util.now_day + 1
           lo == IF util.start_day >= tomorrow THEN util.start_day ELSE tomorrow
           hi == util.start_day + util.max_future_days
       IN  /\ \A d \in FilterDates :
                 d \in Elems(util.result) <=>
                    d \in Elems(util.dates) /\ lo <= DayOf(d) /\ DayOf(d) <= hi
           /\ KeepsOrder(util.dates, util.result)
           /\ \A d \in Elems(util.result) : DayOf(d) # util.now_day
           /\ /\ util.dates = <<DateStr(1), DateStr(2), DateStr(3)>>
              /\ util.start_day = 1 /\ util.now_day = 1 /\ util.max_future_days = 2
              => util.result = <<DateStr(2), DateStr(3)>>

\* C15 witness: a call whose remote list has the current day, a day inside the
\* window and a day past it has returned the day inside alone.
C15_Witness ==
    /\ util.fn = "find_dates_from_date"
    /\ util.dates = <<DateStr(3), DateStr(1), DateStr(2)>>
    /\ util.start_day = 1 /\ util.now_day = 1 /\ util.max_future_days = 1
    /\ util.result = <<DateStr(2)>>

\* The services of the configuration, in configured order.
AllServices == [i \in 1..Len(channels) |-> i]

\* The store refused the write of the pass under way.
SaveFailed == pc = "except" /\ obs.update_calls = 1

\* C16: when the save inside update_service_last_date raises, the pass has
\* its confirmed reservations still, the exception is handled in the loop over
\* the services (with Telegram enabled an error notification is sent) and the
\* cycle comes to process the services after it, up to the last one.
C16_SaveFailureConfined ==
    /\ [](SaveFailed => mode = "incremental" /\ obs.confirmed[obs.committed] >= 1)
    /\ [](/\ pc = "returned" /\ obs.result = "raised" /\ obs.update_calls = 1
          => /\ obs.confirmed[obs.committed] >= 1
             /\ obs.error_events = IF settings.telegram_enabled THEN 1 ELSE 0)
    /\ SaveFailed ~> /\ pc = "service" /\ svc > Len(channels)
                     /\ Len(cyc.started) = Len(channels)

\* C16 witness: the save of the first of two services has failed.
C16_Witness ==
    /\ SaveFailed
    /\ svc = 1 /\ Len(channels) = 2
    /\ channels # persisted

\* The loop over the services of the cycle is over.
CycleOver == pc = "service" /\ svc > Len(channels)

\* C17: in a cycle of either kind the passes are started one after the other
\* for the configured services in configured order, never twice and never
\* with one left out; when the loop is over a pass was started for every
\* service; and a cycle under way comes to that point, whichever passes raised.
C17_EveryServiceOnceInOrder ==
    /\ [](mode # "idle" =>
            /\ IsPrefix(cyc.started, AllServices)
            /\ Len(cyc.started) = IF InPass THEN svc ELSE svc - 1
            /\ CycleOver => cyc.started = AllServices)
    /\ mode # "idle" ~> CycleOver /\ cyc.started = AllServices

\* C17 witness: a reset cycle over two services is over, a pass of it having
\* raised.
C17_Witness ==
    /\ mode = "reset" /\ CycleOver
    /\ cyc.started = <<1, 2>>
    /\ cyc.auth_failed # 0

\* C18 (as claimed): once a _create_session of an incremental cycle has
\* raised, the passes of the later services of that cycle make no call at all:
\* no further session is asked for and no booking call is issued.
C18_AuthFailureEndsCycle ==
    mode = "incremental" /\ cyc.auth_failed # 0 /\ svc > cyc.auth_failed =>
       /\ obs.last_call.kind = "none"
       /\ cyc.sessions = 0

\* The pass is at a call to the remote system, or between two of them.
Booking ==
    pc \in {"details", "dates", "times", "while", "customer", "confirm", "notify",
            "success", "sleep", "after_while", "after_for"}

\* C19: in an incremental cycle _create_session returns at most once; from
\* then on self._session is that session, open, up to the end of the loop over
\* the services, and every call to the remote system of every pass is made
\* with it; between two cycles no session is held.
C19_OneSessionPerCycle ==
    /\ mode = "incremental" =>
          /\ cyc.sessions <= 1
          /\ cyc.sessions = 1 =>
                session = "open" /\ cyc.owner \in 1..Len(channels) /\ cyc.unclosed = {cyc.owner}
          /\ Booking => cyc.sessions = 1
    /\ mode = "idle" => session = "none" /\ cyc.sessions = 0

\* C19 witness: in an incremental cycle the pass of the second service is at its
\* calls with the session the pass of the first service made.
C19_Witness ==
    /\ mode = "incremental"
    /\ svc = 2 /\ Booking
    /\ cyc.owner = 1 /\ cyc.sessions = 1

\* C20: in a reset cycle every call to the remote system of a pass is made
\* with an open session that this pass has made itself; the session held
\* before was closed first, so no session of an earlier service stays open,
\* and a pass whose session could not be made issues no call.
C20_FreshSessionPerResetPass ==
    mode = "reset" =>
       /\ Booking => session = "open" /\ cyc.owner = svc /\ cyc.unclosed = {svc}
       /\ InPass /\ pc # "session" => cyc.unclosed \subseteq {svc}
       /\ session = "closed" => cyc.unclosed = {} /\ ~Booking

\* C20 witness: the pass of the second service of a reset cycle is at its
\* calls with its own session, the second one made in the cycle.
C20_Witness ==
    /\ mode = "reset" /\ svc = 2 /\ Booking
    /\ cyc.sessions = 2
    /\ cyc.owner = 2 /\ cyc.unclosed = {2}

\* The requests among the first n events of a setup_csrf_token call.
CsrfGets(n) == {i \in 1..n : util.events[i].e = "get"}

\* C21 (as claimed): setup_csrf_token asks for the token at most 3 times;
\* every two consecutive requests are separated by a pause of 2 seconds,
\* whether the earlier one raised or answered without a token; the call
\* returns at the first token and raises after the third request without one.
C21_CsrfPauseBetweenAttempts ==
    util.fn = "setup_csrf_token" =>
       LET n == Len(util.events)
       IN  /\ Cardinality(CsrfGets(n)) <= CsrfAttempts
           /\ \A i \in 1..(n - 1) :
                  util.events[i].e = "get" =>
                     util.events[i + 1] = [e |-> "sleep", s |-> CsrfPause]
           /\ util.outcome = "returned" => util.events[n].e = "get"
           /\ util.outcome = "raised" => Cardinality(CsrfGets(n)) = CsrfAttempts

\* C22: called with equal max_retries, initial_delay and delay_multiplier on
\* the same pattern of failures, retry_request and retry_request_async make
\* the same number of invocations, sleep the same sequence of delays
\* initial_delay * delay_multiplier ** attempt, each with the jitter added, and
\* end alike: both return the result of the same invocation or both raise the
\* error of the same invocation.
C22_RetriersEquivalent ==
    util.fn = "retry_both" =>
       /\ util.blocking.calls = util.suspending.calls
       /\ util.blocking.sleeps = util.suspending.sleeps
       /\ util.blocking.outcome = util.suspending.outcome
       /\ util.blocking.by = util.suspending.by
       /\ \A k \in 1..Len(util.blocking.sleeps) :
              util.blocking.sleeps[k] =
                 [delay |-> util.initial_delay * Pow(util.delay_multiplier, k - 1),
                  plus |-> Jitter]

\* C22 witness: both retriers have failed three times, slept growing delays
\* and returned the result of the fourth invocation.
C22_Witness ==
    /\ util.fn = "retry_both"
    /\ util.delay_multiplier = 2
    /\ util.blocking.calls = 4 /\ util.suspending.calls = 4
    /\ util.suspending.outcome = "returned"
    /\ Len(util.suspending.sleeps) = 3

\* C23 (as claimed): with the notification channel configured, a service pass
\* in which a call has failed (session, details, dates, times, reserve, match,
\* confirm, or the write of the watermark) has emitted an ErrorOccurred event
\* by the time it is over.
C23_EveryFailureReported ==
    pc = "returned" /\ settings.telegram_enabled /\ ~obs.all_ok =>
       obs.error_events >= 1

\* The calls of the booking pipeline.
PipelineCalls == {"dates", "times", "reserve", "match", "confirm"}

\* C24 (as claimed): a pipeline call is tried more than once before its
\* failure counts as the failure of the step: when a dates, times, reserve,
\* match or confirm call is the first call of the pass to fail, the call
\* issued just before it was an earlier attempt of that same call.
C24_TransientErrorRetried ==
    [][(/\ InPass /\ obs.all_ok /\ ~obs'.all_ok
        /\ obs'.last_call.kind \in PipelineCalls)
          => /\ obs.last_call.kind = obs'.last_call.kind
             /\ obs.last_call.date = obs'.last_call.date]_vars

\* The last call to the remote system was this one, for the date the pass is
\* at, and it gave what was asked for.
LastCallOk(o, kind) == o.last_call = [kind |-> kind, date |-> CurDate, ok |-> TRUE]

\* C25: within a slot attempt the calls follow reserve, match-customer,
\* confirm. The match call is issued only right after the reserve call of a
\* candidate taken from the list returned its id; the confirm call is issued
\* only right after the match call of the same attempt ended without error
\* and for the id that attempt holds; each of the three steps issues its call
\* once and hands over to the next step or ends the attempt, so an attempt
\* has at most one reserve, one match and one confirm call.
C25_SlotAttemptOrder ==
    [][/\ pc' = "customer" =>
             /\ pc = "while"
             /\ LastCallOk(obs', "reserve")
             /\ loc'.appointment_id \in loc.times_copy \ loc'.times_copy
       /\ pc = "customer" =>
             /\ LastCallOk(obs, "reserve")
             /\ loc.appointment_id # 0
             /\ obs'.last_call.kind = "match"
             /\ pc' \in {"confirm", "while"}
       /\ pc' = "confirm" =>
             /\ pc = "customer"
             /\ LastCallOk(obs', "match")
             /\ loc'.appointment_id = loc.appointment_id
       /\ pc = "confirm" =>
             /\ LastCallOk(obs, "match")
             /\ loc.appointment_id # 0
             /\ obs.slot_attempts[loc.appointment_id] = 1
             /\ obs'.last_call.kind = "confirm"
             /\ pc' \in {"notify", "success", "sleep"}
       /\ pc = "while" /\ obs'.last_call.kind = "reserve" /\ pc' \in {"while", "customer"} =>
             /\ Cardinality(loc.times_copy) = Cardinality(loc'.times_copy) + 1
             /\ obs.last_call.kind \in {"times", "reserve", "match", "confirm"}
      ]_vars

\* C25 witness: the second attempt of a date, after a first one that got an
\* id, has gone through reserve and match and its confirm call returned 200.
C25_Witness ==
    /\ pc \in {"notify", "success"}
    /\ LastCallOk(obs, "confirm")
    /\ obs.reserve_ids = 2 /\ obs.match_calls = 2
    /\ \A t \in 1..2 : obs.slot_attempts[t] = 1

\* C26: the confirm step counts the attempt as confirmed exactly when the
\* confirm call answered HTTP 200: then the counter of the date goes up by one
\* and, with the channel enabled, the next step of the pass emits one
\* VisitRegistered event before anything else happens; on any other status
\* or an exception of the call nothing is counted, the pass goes to the pause
\* and no event is emitted. No other step counts a confirmation or emits a
\* VisitRegistered event.
C26_ConfirmedIffHttp200 ==
    [][/\ pc = "confirm" =>
             IF obs'.confirm_answer = "200"
             THEN /\ loc'.successful_registrations = loc.successful_registrations + 1
                  /\ obs'.confirmed = [obs.confirmed EXCEPT ![CurDate] = @ + 1]
                  /\ pc' = IF settings.telegram_enabled THEN "notify" ELSE "success"
             ELSE /\ obs'.confirm_answer \in ConfirmAnswers
                  /\ loc'.successful_registrations = loc.successful_registrations
                  /\ obs'.confirmed = obs.confirmed
                  /\ pc' = "sleep"
       /\ pc = "notify" =>
             /\ obs.confirm_answer = "200" /\ settings.telegram_enabled
             /\ obs'.visit_events = Inc(obs.visit_events)
             /\ pc' = "success"
       /\ InPass /\ InPass' /\ pc # "notify" => obs'.visit_events = obs.visit_events
       /\ InPass /\ InPass' /\ pc # "confirm" => obs'.confirmed = obs.confirmed
       /\ pc' = "success" => obs'.confirm_answer = "200"
      ]_vars

\* C26 witness: after a confirm call that did not answer 200 and counted
\* nothing, the confirm call of the next attempt answered 200, was counted
\* and its one event has been emitted.
C26_Witness ==
    /\ pc = "success" /\ settings.telegram_enabled
    /\ obs.confirm_calls = 2
    /\ loc.successful_registrations = 1
    /\ obs.visit_events = 1

\* The calls the passes make to the remote system; none of them releases a
\* reservation.
RemoteCalls == {"none", "session", "details", "dates", "times", "reserve", "match", "confirm"}

\* The step stays in the loop over the candidates of the same date.
StaysOnDate ==
    /\ mode' = mode /\ svc' = svc
    /\ loc'.available_dates = loc.available_dates /\ loc'.di = loc.di

\* C27: a slot attempt that fails (no id from the reserve call, an exception
\* of the match call, a confirm call that did not answer 200, a notification
\* that could not be sent) leaves the pass in the loop over the candidates of
\* the same date: back at the loop head, directly or through the pause; and
\* at the loop head, as long as a candidate is left and the quota is open, the
\* next step takes the next candidate. No call that would release the
\* reservation is made.
C27_FailedAttemptContinues ==
    [][/\ pc = "while" /\ pc' # "except"
          /\ obs'.last_call.kind = "reserve" /\ ~obs'.last_call.ok
          /\ loc'.times_copy # loc.times_copy
             => pc' = "while" /\ StaysOnDate
       /\ pc = "customer" /\ ~obs'.last_call.ok => pc' = "while" /\ StaysOnDate
       /\ pc = "confirm" /\ ~obs'.last_call.ok => pc' = "sleep" /\ StaysOnDate
       /\ pc = "sleep" => pc' = "while" /\ StaysOnDate /\ loc' = loc
       /\ pc = "notify" /\ obs'.notify_answer = "failed" => pc' = "success" /\ StaysOnDate
       /\ pc = "success" /\ obs.notify_answer = "failed" =>
             /\ StaysOnDate
             /\ pc' = IF loc.successful_registrations < loc.service_entry.visits_per_day
                      THEN "sleep" ELSE "after_while"
       /\ pc = "while" /\ QuotaOpen(loc) =>
             /\ StaysOnDate
             /\ loc'.times_copy # loc.times_copy /\ loc'.times_copy \subseteq loc.times_copy
       /\ obs'.last_call.kind \in RemoteCalls
      ]_vars

\* C27 witness: after an attempt whose confirm call failed and the pause, the
\* next candidate of the same date has been reserved.
C27_Witness ==
    /\ pc = "customer"
    /\ obs.confirm_calls = 1 /\ loc.total_successes = 0
    /\ obs.reserve_ids = 2
    /\ \A t \in 1..2 : obs.slot_attempts[t] = 1

\* C28 (as claimed): whenever the loop head is about to start a further
\* attempt on a date (a candidate is left, the quota is open and an attempt
\* was made on this date before), the pause has been taken since that
\* earlier attempt, however it ended.
C28_PauseBetweenAttempts ==
    /\ pc = "while" /\ QuotaOpen(loc)
    /\ \E t \in 1..MaxTimes : obs.slot_attempts[t] > 0
    => obs.paused

\* C29 (as claimed): an incremental pass goes through its dates in ascending
\* order, whatever the order of the remote's answer, and the date it commits
\* has no earlier date of the answer before it that the pass has not
\* processed.
C29_AscendingDateOrder ==
    mode = "incremental" /\ InPass =>
       /\ \A i, j \in 1..Len(obs.times_queried) :
              i < j => StrLess(obs.times_queried[i], obs.times_queried[j])
       /\ obs.committed # NoDate =>
              \A d \in Elems(loc.available_dates) :
                 StrLess(d, obs.committed) => d \in Elems(obs.times_queried)

\* C30 (as claimed): when an incremental pass is over, however it ended,
\* update_service_last_date has been called and no date on which the pass
\* confirmed a reservation is greater than the watermark the entry of the
\* service now holds in memory. (Entries that share their service_id with an
\* earlier entry of the channel are left aside.)
C30_ConfirmedImpliesCommitted ==
    /\ mode = "incremental" /\ pc = "returned" /\ ConfirmedDates # {}
    /\ FindService(channels, channels[svc].id, channels[svc].service_id) = svc
    => /\ obs.update_calls >= 1
       /\ \A d \in ConfirmedDates : StrLeq(d, LastDate(channels[svc]))

\* The step is a call of update_service_last_date by the pass under way.
UpdateCall == pc = "after_for" /\ obs'.update_calls # obs.update_calls

\* C31 (as claimed): a call of update_service_last_date by the pass of an
\* entry sets the watermark of that entry to the date given and leaves every
\* other entry of every channel as it was, in memory and in the document,
\* also when entries of one channel share their service_id; no entry's
\* watermark becomes smaller through the call.
C31_CommitAddressesOwnEntry ==
    [][UpdateCall =>
          /\ LastDate(channels'[svc]) = obs'.committed
          /\ \A i \in 1..Len(channels) :
                /\ i # svc => channels'[i] = channels[i] /\ persisted'[i] = persisted[i]
                /\ StrLeq(LastDate(channels[i]), LastDate(channels'[i]))]_vars

\* C32 (as claimed): once a pass of an entry has confirmed on a date and its
\* commit has returned, no pass of that entry in a later incremental cycle
\* makes a times query or a reserve call for that date or an earlier one.
C32_NoReturnBelowWatermark ==
    \A p \in bot.committed :
       ~(/\ mode = "incremental" /\ svc = p[1]
         /\ obs.last_call.kind \in {"times", "reserve"}
         /\ StrLeq(obs.last_call.date, p[2]))

\* C33 (as claimed): after every call of update_service_last_date the entries
\* in memory and the document agree, and a call whose write failed has left
\* the entries in memory as they were.
C33_MemoryAndDocumentAgree ==
    [][UpdateCall =>
          /\ channels' = persisted'
          /\ pc' = "except" => channels' = channels]_vars

\* C40 (as claimed): for every max_retries, zero and negative values included,
\* a call of retry_request or of retry_request_async that has ended has invoked
\* the operation at least once and has returned the result of an invocation
\* or raised the error of one.
C40_OperationInvokedAtLeastOnce ==
    /\ util.fn = "retry_request" /\ util.at = "done" =>
          /\ util.calls >= 1
          /\ util.outcome = "returned" => util.value \in 1..util.calls
          /\ util.outcome = "raised" => util.error \in 1..util.calls
    /\ util.fn = "retry_both" =>
          /\ util.blocking.calls >= 1 /\ util.blocking.by >= 1
          /\ util.suspending.calls >= 1 /\ util.suspending.by >= 1

\* shutdown() has begun or is over.
ShuttingDown == bot.main \in {"shutdown", "join", "cancel_tasks", "exited"}

\* C34: stop_workers cancels the workers only when the join has returned:
\* every item put so far has then been taken and handled to the end and no
\* worker holds an item; a worker whose cancel is under way holds no item;
\* and from the start of shutdown on the polling task is over and no item is
\* put.
C34_JoinBeforeCancel ==
    /\ [][bot.main = "join" /\ bot'.main # "join" =>
             /\ tg.unfinished = 0 /\ tg.queue = <<>>
             /\ tg.handled = 1..tg.enqueued
             /\ \A w \in 1..NumWorkers : tg.at[w] = "get" /\ tg.item[w] = 0
             /\ tg'.cancel = 1..NumWorkers]_vars
    /\ [](\A w \in tg.cancel : tg.at[w] # "handle")
    /\ [](tg.cancel # {} => ShuttingDown /\ tg.handled = 1..tg.enqueued)
    /\ [](ShuttingDown => TaskIsDone(bot, "polling"))
    /\ [][ShuttingDown => tg'.enqueued = tg.enqueued /\ Len(tg'.queue) <= Len(tg.queue)]_vars

\* C34 witness: the workers have been cancelled after two items, one of them
\* with a failed edit, went through the queue.
C34_Witness ==
    /\ bot.main = "cancel_tasks"
    /\ tg.cancel = 1..NumWorkers
    /\ tg.enqueued = 2 /\ tg.handled = {1, 2}
    /\ tg.edit_failed = {2}

\* C35 (as claimed): no worker has called task_done more often than it has
\* taken an item from the queue, also after it was cancelled while waiting
\* on the empty queue, and no call of task_done finds the counter at zero.
C35_TaskDoneOncePerItem ==
    \A w \in 1..NumWorkers :
       /\ tg.dones[w] <= tg.gets[w]
       /\ tg.at[w] # "value_error"

\* A step of the appointment worker's cycle is to be taken.
InCycle == bot.worker = "cycle"

\* C36: a request to stop (the running flag cleared, a task cancelled) changes
\* nothing of the pass under way, and the worker leaves a cycle only when
\* the loop over the services is over: never inside a slot attempt and never
\* between a confirmation and the commit of its pass.
C36_NoCancelMidSequence ==
    /\ [][(bot.running /\ ~bot'.running) \/ ~(bot'.cancel \subseteq bot.cancel) =>
             UNCHANGED <<mode, svc, pc, loc, obs, channels, persisted, session>>]_vars
    /\ [][InCycle /\ ~InCycle' =>
             /\ pc = "service" /\ svc > Len(channels)
             /\ bot'.worker = "wait"]_vars
    /\ [](mode # "idle" => InCycle)

\* C36 witness: the flag was cleared during a cycle and the pass under way
\* has confirmed, notified and committed all the same.
C36_Witness ==
    /\ InCycle /\ ~bot.running
    /\ pc = "returned" /\ obs.result = "true"
    /\ obs.visit_events = 1
    /\ LastDate(channels[svc]) = obs.committed

\* Seconds the sleep the worker is in lasts.
SleepUnderWay ==
    CASE bot.worker = "tick" -> TickLength
      [] bot.worker = "error_sleep" -> ErrorPause
      [] OTHER -> 0

\* C37 (as claimed): a cycle is started only by the worker at its while test
\* with the flag set and no cycle under way; with the flag cleared the worker
\* is in no sleep longer than one tick, also after a cycle that raised.
C37_FlagCheckedEveryTick ==
    /\ [][mode = "idle" /\ mode' # "idle" =>
             bot.worker = "call" /\ bot.running /\ bot'.worker = "cycle"]_vars
    /\ [](~bot.running => SleepUnderWay <= TickLength)

\* C38 (as claimed): with the notification channel disabled, the call the
\* worker makes at its while test with the flag set enters process_all_services.
C38_DisabledChannelStillProcesses ==
    [][/\ ~settings.telegram_enabled
       /\ bot.worker = "call" /\ bot.running /\ bot'.worker # "call"
       => bot'.worker = "cycle" /\ mode' = "incremental"]_vars

\* C39 (as claimed): the queue was made with a capacity, the items waiting in
\* it never exceed the capacity, and the pool holds its NumWorkers workers,
\* all alive, until stop_workers.
C39_BoundedQueueFixedPool ==
    bot.has_services =>
       /\ QueueMaxsize > 0
       /\ Len(tg.queue) <= QueueMaxsize
       /\ bot.main \notin {"cancel_tasks", "exited"} =>
             /\ tg.workers = 1..NumWorkers
             /\ \A w \in 1..NumWorkers : tg.at[w] \in {"get", "handle"}
====
